---- MODULE Spec2Model ----
(***************************************************************************)
(* Render-thread orchestration of ultralight-wrapping: the task mailbox    *)
(* (RENDER_MUTEX), the two condition variables, the shutdown flag, the     *)
(* renderer handles and the frame-paced loop of renderer_main, together    *)
(* with the foreign-callable entry points that submit tasks, wait for the  *)
(* loop to be ready and request its exit.                                  *)
(*                                                                         *)
(* Threads: Renderers run renderer_main; Clients call the entry points.    *)
(* Time is relative: next_frame_in is the time left until next_frame_time  *)
(* and views_updated holds the age of each activity timestamp; Tick lets   *)
(* TickMs milliseconds pass.                                               *)
(***************************************************************************)
EXTENDS Naturals, Sequences, FiniteSets

\* ---------------------------------------------------------------- bounds
MaxCalls == 2
MaxEntries == 2
MaxExec == 2
MaxSends == 4
MaxCreates == 3
TicksPerWindow == 1

\* ------------------------------------------------------ program constants
FrameMs == 33
FreshMs == 1000

TickMs == FreshMs \div TicksPerWindow

Renderers == {"r1", "r2"}
Clients == {"c1", "c2"}
ViewIds == 0 .. (MaxCalls - 1)
CallIds == 1 .. MaxCalls

NoThread == "None"
Absent == FreshMs + 1

\* The closures the clients hand to renderer_run: those of the entry points of
\* view.rs, and one that stays scheduled (returns true) and forces a redraw,
\* which the signature also accepts.
RunKinds == {"create_view", "view_set_size", "recurring_force"}
\* The closures the clients hand to renderer_pending: an input report, and one
\* that stays scheduled.
PendingKinds == {"report_input", "recurring"}
\* The views the clients' view_set_size and report_input calls name.
ViewArgs == {0}

VARIABLES
    RENDER_MUTEX,       \* Option<Vec<RenderCallbackInfo>>: [is_some, funcs]
    lock,               \* the thread holding RENDER_MUTEX, or "free"
    EXIT_RENDERER,      \* AtomicBool
    UL_RENDERER,        \* the renderer thread whose Renderer it points to, or None
    GL_RENDERER,        \* likewise for the OpenglCommandReceiver
    panicked,           \* "" or the message of the panic that aborted the process
    rpc,                \* position of each renderer thread in renderer_main
    wakeup_by_timeout,  \* local of renderer_main
    next_frame_in,      \* next_frame_time - now, clamped at 0
    views,              \* local HashMap<u32, View>: its key set
    views_updated,      \* local HashMap<u32, Instant>: key -> age in ms, Absent if no key
    funcs,              \* the taken list, the part not yet executed
    next_funcs,         \* local Vec of the tasks that stay scheduled
    force_redraw,       \* local flag the tasks may set
    painted,            \* whether the current loop iteration repainted
    forced,             \* how the previous iteration ended: [on] by the force-redraw
                        \* continue, with [left] ms to go until next_frame_time
    cpc,                \* position of each client thread
    cwait,              \* the call the client is in (for renderer_run: the task
                        \* whose completion signal it waits on)
    budget,             \* calls of the entry points the clients may still make
    nextId,             \* identity of the next call
    status,             \* per call: how far it got / what it returned
    accepted_in,        \* per submission: the loop's phase when it was accepted
    executed,           \* per submission: how often the loop executed it (capped)
    exit_pending,       \* an exit request was made that no loop has stopped for yet
    entries,            \* how many times renderer_main was entered
    channel,            \* the mpsc channel of OpenglCommand, oldest first
    gl_renderer,        \* OpenglCommandReceiver: the key sets of its three maps
    gl_hist,            \* what the Command Executor has done so far
    sender,             \* what the backend has sent through OpenglCommandSender
    ret,                \* the ids create_view has returned, oldest first
    marked,             \* the views the last paint called set_needs_paint(true) on
    last_touch,         \* ms since the last activity on each view id, Absent if none
    render_target,      \* texture_id of each view's render_target(), NoTexture if none
    buf,                \* the caller's buffer after the last copy_from_view
    copy                \* the last copy_from_view: its arguments and what it met

locals == <<wakeup_by_timeout, next_frame_in, views, views_updated, funcs,
            next_funcs, force_redraw, painted, forced>>
rvars == <<rpc, locals>>
handles == <<UL_RENDERER, GL_RENDERER>>
gvars == <<RENDER_MUTEX, lock, EXIT_RENDERER, handles, panicked>>
calls == <<cwait, budget, nextId, status, accepted_in>>
hist == <<executed, exit_pending, entries>>
cvars == <<cpc, calls, hist>>
gpuvars == <<channel, gl_renderer, gl_hist, sender>>
viewvars == <<ret, marked, last_touch, render_target, buf, copy>>
seqvars == <<gpuvars, viewvars>>
vars == <<gvars, rvars, cvars, seqvars>>

\* A texture id of 0 stands for no texture: texture_1_id of a GpuState, or a
\* render target that has none yet.
NoTexture == 0

\* The resource categories of the Resource Registry.
Categories == {"textures", "render_buffers", "geometries"}
\* Before any copy_from_view.
NoCopy == [called |-> FALSE, view |-> 0, size |-> 0, present |-> FALSE,
           resolved |-> FALSE, report |-> ""]
\* The record kept of the last SubmitDrawList: its length, how many of its
\* operations ran, and whether every id it names had been created before.
NoList == [len |-> 0, done |-> 0, known |-> TRUE, named_sent |-> TRUE]

\* The record kept of the last CreateRenderBuffer executed: whether its
\* texture id was in the map, and the render buffer map before and after.
NoCreate == [called |-> FALSE, id |-> 0, found |-> FALSE, before |-> {}, after |-> {}]
\* The record kept of the last UpdateTexture or UpdateGeometry executed for an
\* id that was not in its map: its place among the executed commands, how
\* many commands were behind it in the channel, and whether it changed a map.
NoUpdate == [called |-> FALSE, at |-> 0, behind |-> 0, changed |-> FALSE]

None == [is_some |-> FALSE, funcs |-> <<>>]
Some(list) == [is_some |-> TRUE, funcs |-> list]

NoViews == [v \in ViewIds |-> Absent]
NotForced == [on |-> FALSE, left |-> 0]

Alive == panicked = ""

Min(a, b) == IF a < b THEN a ELSE b
Sub(a, b) == IF a > b THEN a - b ELSE 0

InitWith(n) ==
    /\ RENDER_MUTEX = None
    /\ lock = "free"
    /\ EXIT_RENDERER = FALSE
    /\ UL_RENDERER = NoThread
    /\ GL_RENDERER = NoThread
    /\ panicked = ""
    /\ rpc = [r \in Renderers |-> "idle"]
    /\ wakeup_by_timeout = [r \in Renderers |-> FALSE]
    /\ next_frame_in = [r \in Renderers |-> 0]
    /\ views = [r \in Renderers |-> {}]
    /\ views_updated = [r \in Renderers |-> NoViews]
    /\ funcs = [r \in Renderers |-> <<>>]
    /\ next_funcs = [r \in Renderers |-> <<>>]
    /\ force_redraw = [r \in Renderers |-> FALSE]
    /\ painted = [r \in Renderers |-> FALSE]
    /\ forced = [r \in Renderers |-> NotForced]
    /\ cpc = [c \in Clients |-> "idle"]
    /\ cwait = [c \in Clients |-> 0]
    /\ budget = n
    /\ nextId = 1
    /\ status = [i \in CallIds |-> "unused"]
    /\ accepted_in = [i \in CallIds |-> ""]
    /\ executed = [i \in CallIds |-> 0]
    /\ exit_pending = FALSE
    /\ entries = 0

\* create_gpu_driver() and OpenglCommandReceiver::new: an empty channel and
\* empty maps.
GpuInit ==
    /\ channel = <<>>
    /\ gl_renderer = [textures |-> {}, render_buffers |-> {}, geometries |-> {}]
    /\ gl_hist = [applied |-> <<>>,
                  created |-> [c \in Categories |-> 0],
                  destroyed |-> [c \in Categories |-> 0],
                  known |-> [c \in Categories |-> {}],
                  unbound |-> FALSE,
                  native |-> [c \in Categories |-> {}],
                  absent_destroy |-> FALSE,
                  rb |-> NoCreate,
                  upd |-> NoUpdate,
                  list |-> NoList]
    /\ sender = [sent |-> 0, live |-> [c \in Categories |-> {}],
                 made |-> [c \in Categories |-> {}],
                 valid |-> [c \in Categories |-> TRUE]]

\* No view entry point has been called.
ViewInit ==
    /\ ret = <<>>
    /\ marked = {}
    /\ last_touch = NoViews
    /\ render_target = [v \in ViewIds |-> NoTexture]
    /\ buf = <<>>
    /\ copy = NoCopy

Init == InitWith(MaxCalls) /\ GpuInit /\ ViewInit

\* ------------------------------------------------------------- lifecycle
\* The lifecycle state a renderer thread's position stands for: Running from
\* the installation of the task list until the loop condition fails, Draining
\* from there until the mailbox is cleared, Stopped while the handles are
\* released; a thread outside the loop has no list installed.
LoopPhase(pc) ==
    CASE pc \in {"head", "drain", "exec", "waiting", "notified"} -> "Running"
      [] pc = "clear" -> "Draining"
      [] pc \in {"take_ul", "take_gl"} -> "Stopped"
      [] OTHER -> "Uninitialized"

\* The phase of the loop that has a list installed.
MailboxPhase ==
    IF \E r \in Renderers : LoopPhase(rpc[r]) = "Running" THEN "Running"
    ELSE IF \E r \in Renderers : LoopPhase(rpc[r]) = "Draining" THEN "Draining"
    ELSE "Stopped"

\* ------------------------------------------------------------- condvars
\* RENDER_SEND_TASK_COND.notify_one(): one renderer thread parked in
\* wait_until is woken; with none parked the notification is lost.
NotifySendTask(old, new) ==
    LET parked == {r \in Renderers : old[r] = "waiting"} IN
    IF parked = {} THEN new = old
    ELSE \E r \in parked : new = [old EXCEPT ![r] = "notified"]

ParkedToWoken(pc) ==
    IF pc = "init_parked" THEN "init_check" ELSE "exit_check"

\* RENDER_RECV_STAT_COND.notify_one(): one client parked in wait_for is woken.
NotifyRecvStat(old, new) ==
    LET parked == {c \in Clients : old[c] \in {"init_parked", "exit_parked"}} IN
    IF parked = {} THEN new = old
    ELSE \E c \in parked : new = [old EXCEPT ![c] = ParkedToWoken(old[c])]

\* c.notify_all(); c.notify_one() on a task's completion signal: every client
\* parked on that signal is woken.
NotifyTask(t, old) ==
    [c \in Clients |->
        IF t.sig /\ old[c] = "run_blocked" /\ cwait[c] = t.id
        THEN "run_woken" ELSE old[c]]

\* ------------------------------------------------------------ the tasks
Task(i, k, v, s) == [id |-> i, kind |-> k, view |-> v, sig |-> s]

\* The return value of the closure: true keeps it scheduled.
TaskKeep(t) == t.kind \in {"recurring", "recurring_force"}

\* Whether the closure sets *force_redraw.
TaskForce(t) == t.kind \in {"view_set_size", "recurring_force"}

\* The closure's panic when it needs a renderer handle that is not set.
TaskPanics(t) == t.kind = "create_view" /\ UL_RENDERER = NoThread

TaskViews(t, vs) ==
    CASE t.kind = "create_view" -> vs \cup {Cardinality(vs)}
      [] t.kind = "remove_view" -> vs \ {t.view}
      [] OTHER -> vs

\* Fault: a timestamp is put in whether or not the view is in the registry.
TaskUpdatedUnguarded(t, vs, up) ==
    CASE t.kind = "create_view" -> [up EXCEPT ![Cardinality(vs)] = 0]
      [] t.kind \in {"view_set_size", "report_input"} -> [up EXCEPT ![t.view] = 0]
      [] OTHER -> up

\* What the closure does to the activity map: create_view inserts the new id,
\* view_set_size and the report_* functions insert inside
\* `if let Some(view) = views.get(&view_id)`.
TaskUpdated(t, vs, up) ==
    CASE t.kind = "create_view" -> [up EXCEPT ![Cardinality(vs)] = 0]
      [] t.kind \in {"view_set_size", "report_input"} ->
            IF t.view \in vs THEN [up EXCEPT ![t.view] = 0] ELSE up
      [] OTHER -> up

\* ---------------------------------------------------------- renderer_main
\* A panic aborts the process: its threads and its memory are gone, and only
\* the message is left.
Abort(msg) ==
    /\ panicked' = msg
    /\ RENDER_MUTEX' = None
    /\ lock' = "free"
    /\ EXIT_RENDERER' = FALSE
    /\ UL_RENDERER' = NoThread
    /\ GL_RENDERER' = NoThread
    /\ rpc' = [r \in Renderers |-> "aborted"]
    /\ wakeup_by_timeout' = [r \in Renderers |-> FALSE]
    /\ next_frame_in' = [r \in Renderers |-> 0]
    /\ views' = [r \in Renderers |-> {}]
    /\ views_updated' = [r \in Renderers |-> NoViews]
    /\ funcs' = [r \in Renderers |-> <<>>]
    /\ next_funcs' = [r \in Renderers |-> <<>>]
    /\ force_redraw' = [r \in Renderers |-> FALSE]
    /\ painted' = [r \in Renderers |-> FALSE]
    /\ forced' = [r \in Renderers |-> NotForced]
    /\ cpc' = [c \in Clients |-> "aborted"]
    /\ cwait' = [c \in Clients |-> 0]
    /\ UNCHANGED <<budget, nextId, status, accepted_in, hist>>

\* The renderer threads are interchangeable: the first to enter is r1.
MayEnter(r) == r = "r1" \/ entries > 0

\* The client threads are interchangeable: the first to call is c1.
MayCall(c) == c = "c1" \/ nextId > 1

\* renderer_main is entered: the GPU driver and the Renderer are created.
Enter(r) ==
    /\ Alive
    /\ UNCHANGED seqvars
    /\ rpc[r] = "idle"
    /\ MayEnter(r)
    /\ entries < MaxEntries
    /\ entries' = entries + 1
    /\ rpc' = [rpc EXCEPT ![r] = "set_ul"]
    /\ UNCHANGED <<gvars, locals, cpc, calls, executed, exit_pending>>

\* Fault: the handle is not stored.
StoredNothing(r) == NoThread

\* The handle a replace stores: a reference to the Renderer, or to the
\* OpenglCommandReceiver, of the thread's renderer_main.
Stored(r) == r

\* UL_RENDERER.replace(..).map(|_| panic!(..))
SetUl(r) ==
    /\ Alive
    /\ UNCHANGED seqvars
    /\ rpc[r] = "set_ul"
    /\ IF UL_RENDERER # NoThread
       THEN Abort("Renderer already initialized")
       ELSE /\ UL_RENDERER' = Stored(r)
            /\ rpc' = [rpc EXCEPT ![r] = "set_gl"]
            /\ UNCHANGED <<RENDER_MUTEX, lock, EXIT_RENDERER, GL_RENDERER, panicked,
                           locals, cvars>>

\* GL_RENDERER.replace(..).map(|_| panic!(..))
SetGl(r) ==
    /\ Alive
    /\ UNCHANGED seqvars
    /\ rpc[r] = "set_gl"
    /\ IF GL_RENDERER # NoThread
       THEN Abort("GL Renderer already initialized")
       ELSE /\ GL_RENDERER' = Stored(r)
            /\ rpc' = [rpc EXCEPT ![r] = "install"]
            /\ UNCHANGED <<RENDER_MUTEX, lock, EXIT_RENDERER, UL_RENDERER, panicked,
                           locals, cvars>>

\* Fault: the task list is installed without the check.
InstallPanicsNever(m) == FALSE

\* The lifecycle check made before the task list is installed.
InstallPanics(m) == m.is_some

\* The empty task list is installed, one waiter for the state is woken, and
\* the loop's locals are created.
Install(r) ==
    /\ Alive
    /\ UNCHANGED seqvars
    /\ rpc[r] = "install"
    /\ lock = "free"
    /\ IF InstallPanics(RENDER_MUTEX)
       THEN Abort("Renderer thread already running, pending tasks exist")
       ELSE /\ RENDER_MUTEX' = Some(<<>>)
            /\ NotifyRecvStat(cpc, cpc')
            /\ rpc' = [rpc EXCEPT ![r] = "head"]
            /\ next_frame_in' = [next_frame_in EXCEPT ![r] = 0]
            /\ wakeup_by_timeout' = [wakeup_by_timeout EXCEPT ![r] = FALSE]
            /\ views' = [views EXCEPT ![r] = {}]
            /\ views_updated' = [views_updated EXCEPT ![r] = NoViews]
            /\ painted' = [painted EXCEPT ![r] = FALSE]
            /\ forced' = [forced EXCEPT ![r] = NotForced]
            /\ UNCHANGED <<lock, EXIT_RENDERER, handles, panicked, funcs, next_funcs,
                           force_redraw, calls, hist>>

\* Fault: the activity pass drops nothing.
PaintUpdatedKeeps(vs, up) == up

\* The activity pass of a paint: a view whose timestamp is younger than the
\* freshness window is repainted, an older timestamp is dropped.
PaintUpdated(vs, up) ==
    [v \in ViewIds |->
        IF v \in vs /\ up[v] # Absent /\ ~(up[v] < FreshMs) THEN Absent ELSE up[v]]

\* The loop condition `while !EXIT_RENDERER.load()` fails.
LoopExits(flag) == flag

\* Fault: every iteration repaints.
RepaintsAlways(w, left) == TRUE

\* Whether an iteration repaints: `if wakeup_by_timeout`.
Repaints(w, left) == w

\* Top of the loop: the shutdown flag is loaded; a loop that goes on repaints
\* when the last wait timed out or a task forced a redraw.
LoopHead(r) ==
    /\ Alive
    /\ UNCHANGED seqvars
    /\ rpc[r] = "head"
    /\ IF LoopExits(EXIT_RENDERER)
       THEN /\ rpc' = [rpc EXCEPT ![r] = "clear"]
            /\ UNCHANGED <<next_frame_in, views_updated, painted>>
       ELSE /\ rpc' = [rpc EXCEPT ![r] = "drain"]
            /\ painted' = [painted EXCEPT
                    ![r] = Repaints(wakeup_by_timeout[r], next_frame_in[r])]
            /\ IF Repaints(wakeup_by_timeout[r], next_frame_in[r])
               THEN /\ next_frame_in' = [next_frame_in EXCEPT ![r] = FrameMs]
                    /\ views_updated' = [views_updated EXCEPT
                            ![r] = PaintUpdated(views[r], views_updated[r])]
               ELSE UNCHANGED <<next_frame_in, views_updated>>
    /\ UNCHANGED <<gvars, cvars, wakeup_by_timeout, views, funcs, next_funcs,
                   force_redraw, forced>>

\* Fault: the take leaves the list in the mailbox.
TakenKeepsList(m) == m

\* What the mailbox holds after `lock.take()`.
Taken(m) == None

\* RENDER_MUTEX.lock(); lock.take()
DrainTake(r) ==
    /\ Alive
    /\ UNCHANGED seqvars
    /\ rpc[r] = "drain"
    /\ lock = "free"
    /\ IF ~RENDER_MUTEX.is_some
       THEN Abort("Renderer mutex corrupted")
       ELSE /\ lock' = r
            /\ RENDER_MUTEX' = Taken(RENDER_MUTEX)
            /\ funcs' = [funcs EXCEPT ![r] = RENDER_MUTEX.funcs]
            /\ next_funcs' = [next_funcs EXCEPT ![r] = <<>>]
            /\ force_redraw' = [force_redraw EXCEPT ![r] = FALSE]
            /\ rpc' = [rpc EXCEPT ![r] = "exec"]
            /\ UNCHANGED <<EXIT_RENDERER, handles, panicked, wakeup_by_timeout,
                           next_frame_in, views, views_updated, painted, forced, cvars>>

\* Fault: every executed task stays scheduled.
KeptAlways(next, t, keep) == Append(next, t)

\* `if f(..) { next_funcs.push((f, c.clone())) }`: a task that returned true is
\* collected for the next cycle.
Kept(next, t, keep) == IF keep THEN Append(next, t) ELSE next

\* Fault: the batch is run from its end.
PickLast(list) == [task |-> list[Len(list)], rest |-> SubSeq(list, 1, Len(list) - 1)]

\* `for (f, c) in funcs`: the taken batch is run from its front.
Pick(list) == [task |-> Head(list), rest |-> Tail(list)]

\* One turn of `for (f, c) in funcs`: the closure runs, is kept if it returns
\* true, and its completion signal (if any) is notified.
ExecTask(r) ==
    /\ Alive
    /\ UNCHANGED seqvars
    /\ rpc[r] = "exec"
    /\ funcs[r] # <<>>
    /\ LET t == Pick(funcs[r]).task IN
       IF TaskPanics(t)
       THEN Abort("UL Renderer not initialized")
       ELSE /\ funcs' = [funcs EXCEPT ![r] = Pick(funcs[r]).rest]
            /\ views' = [views EXCEPT ![r] = TaskViews(t, views[r])]
            /\ views_updated' = [views_updated EXCEPT
                    ![r] = TaskUpdated(t, views[r], views_updated[r])]
            /\ force_redraw' = [force_redraw EXCEPT ![r] = @ \/ TaskForce(t)]
            /\ next_funcs' = [next_funcs EXCEPT ![r] = Kept(@, t, TaskKeep(t))]
            /\ cpc' = NotifyTask(t, cpc)
            /\ executed' = [executed EXCEPT ![t.id] = Min(@ + 1, MaxExec)]
            /\ UNCHANGED <<gvars, rpc, wakeup_by_timeout, next_frame_in, painted,
                           forced, calls, exit_pending, entries>>

\* Fault: the loop always goes to the deadline-bounded wait.
SkipsWaitNever(force) == FALSE

\* Whether the iteration ends by `continue` instead of the wait:
\* `if force_redraw`.
SkipsWait(force) == force

\* Fault: the kept tasks are dropped and the mailbox is left without a list.
PutNothing(next) == None

\* What the mailbox holds after `lock.replace(next_funcs)`.
Put(next) == Some(next)

\* lock.replace(next_funcs), then either the force-redraw continue or the
\* deadline-bounded wait, which releases the mutex.
DrainPut(r) ==
    /\ Alive
    /\ UNCHANGED seqvars
    /\ rpc[r] = "exec"
    /\ funcs[r] = <<>>
    /\ IF RENDER_MUTEX.is_some
       THEN Abort("Renderer mutex corrupted")
       ELSE /\ lock' = "free"
            /\ RENDER_MUTEX' = Put(next_funcs[r])
            /\ next_funcs' = [next_funcs EXCEPT ![r] = <<>>]
            /\ IF SkipsWait(force_redraw[r])
               THEN /\ wakeup_by_timeout' = [wakeup_by_timeout EXCEPT ![r] = TRUE]
                    /\ rpc' = [rpc EXCEPT ![r] = "head"]
                    /\ forced' = [forced EXCEPT
                            ![r] = [on |-> TRUE, left |-> next_frame_in[r]]]
               ELSE /\ rpc' = [rpc EXCEPT ![r] = "waiting"]
                    /\ forced' = [forced EXCEPT ![r] = NotForced]
                    /\ UNCHANGED wakeup_by_timeout
            /\ UNCHANGED <<EXIT_RENDERER, handles, panicked, next_frame_in, views,
                           views_updated, funcs, force_redraw, painted, cvars>>

\* Fault: the wait has no deadline.
WaitUntilEndsNotifiedOnly(pc, left) == pc = "notified"

\* When `wait_until(&mut lock, next_frame_time)` ends: on a notification, or
\* when the deadline is reached.
WaitUntilEnds(pc, left) == pc = "notified" \/ (pc = "waiting" /\ left = 0)

\* wait_until returns, at its deadline or woken by a notification before it:
\* the mutex is taken again, the result of the wait is recorded, and the guard
\* is dropped at the end of the iteration.
WaitReturn(r) ==
    /\ Alive
    /\ UNCHANGED seqvars
    /\ WaitUntilEnds(rpc[r], next_frame_in[r])
    /\ lock = "free"
    /\ wakeup_by_timeout' = [wakeup_by_timeout EXCEPT ![r] = (rpc[r] = "waiting")]
    /\ rpc' = [rpc EXCEPT ![r] = "head"]
    /\ UNCHANGED <<gvars, cvars, next_frame_in, views, views_updated, funcs,
                   next_funcs, force_redraw, painted, forced>>

\* Fault: the list stays in the mailbox after the loop.
ClearedKeepsList == Some(<<>>)

\* What the mailbox holds after the loop: `*lock = None`.
Cleared == None

\* After the loop: the mailbox is cleared (the tasks it holds are dropped) and
\* one waiter for the state is woken.
Clear(r) ==
    /\ Alive
    /\ UNCHANGED seqvars
    /\ rpc[r] = "clear"
    /\ lock = "free"
    /\ IF ~RENDER_MUTEX.is_some
       THEN Abort("Renderer mutex corrupted at exit")
       ELSE /\ RENDER_MUTEX' = Cleared
            /\ NotifyRecvStat(cpc, cpc')
            /\ rpc' = [rpc EXCEPT ![r] = "take_ul"]
            /\ exit_pending' = FALSE
            /\ UNCHANGED <<lock, EXIT_RENDERER, handles, panicked, locals, calls,
                           executed, entries>>

\* UL_RENDERER.take().unwrap_or_else(|| panic!(..))
TakeUl(r) ==
    /\ Alive
    /\ UNCHANGED seqvars
    /\ rpc[r] = "take_ul"
    /\ IF UL_RENDERER = NoThread
       THEN Abort("UL Renderer not initialized")
       ELSE /\ UL_RENDERER' = NoThread
            /\ rpc' = [rpc EXCEPT ![r] = "take_gl"]
            /\ UNCHANGED <<RENDER_MUTEX, lock, EXIT_RENDERER, GL_RENDERER, panicked,
                           locals, cvars>>

\* GL_RENDERER.take().unwrap_or_else(|| panic!(..)); renderer_main returns and
\* its locals are dropped.
TakeGl(r) ==
    /\ Alive
    /\ UNCHANGED seqvars
    /\ rpc[r] = "take_gl"
    /\ IF GL_RENDERER = NoThread
       THEN Abort("GL Renderer not initialized")
       ELSE /\ GL_RENDERER' = NoThread
            /\ rpc' = [rpc EXCEPT ![r] = "idle"]
            /\ wakeup_by_timeout' = [wakeup_by_timeout EXCEPT ![r] = FALSE]
            /\ next_frame_in' = [next_frame_in EXCEPT ![r] = 0]
            /\ views' = [views EXCEPT ![r] = {}]
            /\ views_updated' = [views_updated EXCEPT ![r] = NoViews]
            /\ force_redraw' = [force_redraw EXCEPT ![r] = FALSE]
            /\ painted' = [painted EXCEPT ![r] = FALSE]
            /\ forced' = [forced EXCEPT ![r] = NotForced]
            /\ UNCHANGED <<RENDER_MUTEX, lock, EXIT_RENDERER, UL_RENDERER, panicked,
                           funcs, next_funcs, cvars>>

\* -------------------------------------------------------------- the clock
\* TickMs milliseconds pass: deadlines come nearer and timestamps age (an age
\* is kept up to the freshness window, beyond which the code does not tell
\* ages apart).
Tick ==
    /\ Alive
    /\ UNCHANGED seqvars
    /\ \E r \in Renderers :
          \/ next_frame_in[r] > 0
          \/ \E v \in ViewIds : views_updated[r][v] < FreshMs
    /\ next_frame_in' = [r \in Renderers |-> Sub(next_frame_in[r], TickMs)]
    /\ views_updated' = [r \in Renderers |-> [v \in ViewIds |->
            IF views_updated[r][v] = Absent THEN Absent
            ELSE Min(views_updated[r][v] + TickMs, FreshMs)]]
    /\ UNCHANGED <<gvars, cvars, rpc, wakeup_by_timeout, views, funcs, next_funcs,
                   force_redraw, painted, forced>>

\* ------------------------------------------------------ the entry points
\* Fault: a submitted task goes to the front of the list.
PushFront(list, t) == <<t>> \o list

\* funcs.push(..): a submitted task goes to the end of the list.
Push(list, t) == Append(list, t)

\* Fault: the submitting thread calls the closure itself.
SubmittedRuns(t, vs) == TaskViews(t, vs)

\* What a submission does to the view registry of a loop: the closure is
\* boxed and pushed, `funcs.push((Box::new(f), ..))`, and not called.
Submitted(t, vs) == vs

\* Fault: every submission is taken as accepted, list or not.
AcceptsAlways(m) == TRUE

\* Whether a submission is accepted: `if let Some(funcs) = lock.as_mut()`.
Accepts(m) == m.is_some

\* renderer_pending: under the mutex, the task is appended without a signal.
RendererPending(c, k, v) ==
    /\ Alive
    /\ UNCHANGED seqvars
    /\ cpc[c] = "idle"
    /\ MayCall(c)
    /\ budget > 0
    /\ lock = "free"
    /\ budget' = budget - 1
    /\ nextId' = nextId + 1
    /\ IF Accepts(RENDER_MUTEX)
       THEN /\ RENDER_MUTEX' = Some(Push(RENDER_MUTEX.funcs, Task(nextId, k, v, FALSE)))
            /\ status' = [status EXCEPT ![nextId] = "pending_true"]
            /\ accepted_in' = [accepted_in EXCEPT ![nextId] = MailboxPhase]
       ELSE /\ status' = [status EXCEPT ![nextId] = "pending_false"]
            /\ UNCHANGED <<RENDER_MUTEX, accepted_in>>
    /\ views' = [r \in Renderers |-> Submitted(Task(nextId, k, v, FALSE), views[r])]
    /\ UNCHANGED <<lock, EXIT_RENDERER, handles, panicked, rpc, wakeup_by_timeout,
                   next_frame_in, views_updated, funcs, next_funcs, force_redraw,
                   painted, forced, cpc, cwait, hist>>

\* Fault: renderer_run does not wait on the signal of an accepted task.
AfterSubmitNoWait(accepted) == IF accepted THEN "run_woken" ELSE "idle"

\* Where renderer_run goes after the test of the mailbox: `c.wait(&mut lock)`
\* for an accepted task, the return of false otherwise.
AfterSubmit(accepted) == IF accepted THEN "run_blocked" ELSE "idle"

\* renderer_run up to c.wait: the task is appended with a fresh signal, the
\* loop is notified and the caller parks on the signal, releasing the mutex.
RendererRun(c, k, v) ==
    /\ Alive
    /\ UNCHANGED seqvars
    /\ cpc[c] = "idle"
    /\ MayCall(c)
    /\ budget > 0
    /\ lock = "free"
    /\ budget' = budget - 1
    /\ nextId' = nextId + 1
    /\ cpc' = [cpc EXCEPT ![c] = AfterSubmit(Accepts(RENDER_MUTEX))]
    /\ IF Accepts(RENDER_MUTEX)
       THEN /\ RENDER_MUTEX' = Some(Push(RENDER_MUTEX.funcs, Task(nextId, k, v, TRUE)))
            /\ NotifySendTask(rpc, rpc')
            /\ cwait' = [cwait EXCEPT ![c] = nextId]
            /\ status' = [status EXCEPT ![nextId] = "run_blocked"]
            /\ accepted_in' = [accepted_in EXCEPT ![nextId] = MailboxPhase]
       ELSE /\ status' = [status EXCEPT ![nextId] = "run_false"]
            /\ UNCHANGED <<RENDER_MUTEX, rpc, cwait, accepted_in>>
    /\ views' = [r \in Renderers |-> Submitted(Task(nextId, k, v, TRUE), views[r])]
    /\ UNCHANGED <<lock, EXIT_RENDERER, handles, panicked, wakeup_by_timeout,
                   next_frame_in, views_updated, funcs, next_funcs, force_redraw,
                   painted, forced, hist>>

\* renderer_run after c.wait: the woken caller takes the mutex again and
\* returns true.
RendererRunReturn(c) ==
    /\ Alive
    /\ UNCHANGED seqvars
    /\ cpc[c] = "run_woken"
    /\ lock = "free"
    /\ cpc' = [cpc EXCEPT ![c] = "idle"]
    /\ cwait' = [cwait EXCEPT ![c] = 0]
    /\ status' = [status EXCEPT ![cwait[c]] = "run_true"]
    /\ UNCHANGED <<gvars, rvars, budget, nextId, accepted_in, hist>>

\* ultralightui_wait_render_init is called.
WaitRenderInit(c) ==
    /\ Alive
    /\ UNCHANGED seqvars
    /\ cpc[c] = "idle"
    /\ MayCall(c)
    /\ budget > 0
    /\ budget' = budget - 1
    /\ nextId' = nextId + 1
    /\ cpc' = [cpc EXCEPT ![c] = "init_check"]
    /\ cwait' = [cwait EXCEPT ![c] = nextId]
    /\ status' = [status EXCEPT ![nextId] = "init_waiting"]
    /\ UNCHANGED <<gvars, rvars, accepted_in, hist>>

\* The condition of the wait loop of ultralightui_wait_render_init.
InitWaits(m) == ~m.is_some

\* One test of `while lock.is_none()`: return, or park in wait_for.
WaitRenderInitCheck(c) ==
    /\ Alive
    /\ UNCHANGED seqvars
    /\ cpc[c] = "init_check"
    /\ lock = "free"
    /\ IF InitWaits(RENDER_MUTEX)
       THEN /\ cpc' = [cpc EXCEPT ![c] = "init_parked"]
            /\ UNCHANGED <<cwait, status>>
       ELSE /\ cpc' = [cpc EXCEPT ![c] = "idle"]
            /\ cwait' = [cwait EXCEPT ![c] = 0]
            /\ status' = [status EXCEPT ![cwait[c]] = "init_returned"]
    /\ UNCHANGED <<gvars, rvars, budget, nextId, accepted_in, hist>>

\* Fault: the waits on RENDER_RECV_STAT_COND have no timeout.
WaitForNeverTimesOut(pc) == FALSE

\* Whether the waits on RENDER_RECV_STAT_COND are bounded: wait_for(.., 100 ms).
WaitForTimesOut(pc) == pc \in {"init_parked", "exit_parked"}

\* wait_for(.., 100 ms) times out.
WaitForTimeout(c) ==
    /\ Alive
    /\ UNCHANGED seqvars
    /\ WaitForTimesOut(cpc[c])
    /\ cpc' = [cpc EXCEPT ![c] = ParkedToWoken(cpc[c])]
    /\ UNCHANGED <<gvars, rvars, calls, hist>>

\* ultralightui_exit: EXIT_RENDERER.store(true)
ExitStore(c) ==
    /\ Alive
    /\ UNCHANGED seqvars
    /\ cpc[c] = "idle"
    /\ MayCall(c)
    /\ budget > 0
    /\ budget' = budget - 1
    /\ nextId' = nextId + 1
    /\ EXIT_RENDERER' = TRUE
    /\ exit_pending' = TRUE
    /\ cpc' = [cpc EXCEPT ![c] = "exit_notify"]
    /\ cwait' = [cwait EXCEPT ![c] = nextId]
    /\ status' = [status EXCEPT ![nextId] = "exit_waiting"]
    /\ UNCHANGED <<RENDER_MUTEX, lock, handles, panicked, rvars, accepted_in,
                   executed, entries>>

\* ultralightui_exit: RENDER_SEND_TASK_COND.notify_one()
ExitNotify(c) ==
    /\ Alive
    /\ UNCHANGED seqvars
    /\ cpc[c] = "exit_notify"
    /\ NotifySendTask(rpc, rpc')
    /\ cpc' = [cpc EXCEPT ![c] = "exit_check"]
    /\ UNCHANGED <<gvars, locals, calls, hist>>

\* Fault: ultralightui_exit does not wait.
ExitWaitsNever(m) == FALSE

\* The condition of the wait loop of ultralightui_exit.
ExitWaits(m) == m.is_some

\* One test of `while lock.is_some()`: return, or park in wait_for.
ExitCheck(c) ==
    /\ Alive
    /\ UNCHANGED seqvars
    /\ cpc[c] = "exit_check"
    /\ lock = "free"
    /\ IF ExitWaits(RENDER_MUTEX)
       THEN /\ cpc' = [cpc EXCEPT ![c] = "exit_parked"]
            /\ UNCHANGED <<cwait, status>>
       ELSE /\ cpc' = [cpc EXCEPT ![c] = "idle"]
            /\ cwait' = [cwait EXCEPT ![c] = 0]
            /\ status' = [status EXCEPT ![cwait[c]] = "exit_returned"]
    /\ UNCHANGED <<gvars, rvars, budget, nextId, accepted_in, hist>>

\* ------------------------------------------------- the Command Executor
\* The ids the backend draws from next_texture_id, next_render_buffer_id and
\* next_geometry_id.
TextureIds == {1, 2}
RenderBufferIds == {1}
GeometryIds == {1}

\* A command of the channel; seq and named_sent record when it was sent and
\* whether a Create had been sent for every id its draw list names.
Command(o, i, t, l) ==
    [op |-> o, id |-> i, tex |-> t, list |-> l, seq |-> 0, named_sent |-> TRUE]

ClearOps == {[op |-> "ClearRenderBuffer", rb |-> b, geo |-> 0, tex |-> NoTexture] :
                b \in RenderBufferIds}
DrawOps(texs) == {[op |-> "DrawGeometry", rb |-> b, geo |-> g, tex |-> t] :
                    b \in RenderBufferIds, g \in GeometryIds, t \in texs}
\* The draw lists the backend submits: a clear, an untextured draw, or a clear
\* and a textured draw.
DrawLists ==
    {<<a>> : a \in ClearOps \cup DrawOps({NoTexture})}
        \cup {<<a, b>> : a \in ClearOps, b \in DrawOps({1})}

create_texture(reg, id) == [reg EXCEPT !.textures = @ \cup {id}]

\* Fault: an update makes the entry it does not find.
update_texture_inserts(reg, id) == [reg EXCEPT !.textures = @ \cup {id}]

\* `if let Some(&id) = self.textures.get(&texture_id) { .. }`: the pixels go to
\* the native texture, the map is only read.
update_texture(reg, id) == reg

\* Fault: the registry entry outlives the texture.
destroy_texture_keeps(reg, id) == reg

destroy_texture(reg, id) == [reg EXCEPT !.textures = @ \ {id}]

\* Fault: a missing texture is made on the spot instead of a panic.
create_render_buffer_makes_texture(reg, tex) == FALSE

\* `panic!("Texture ID {} not found", ..)`
create_render_buffer_panics(reg, tex) == tex \notin reg.textures
create_render_buffer(reg, id) == [reg EXCEPT !.render_buffers = @ \cup {id}]
destroy_render_buffer(reg, id) == [reg EXCEPT !.render_buffers = @ \ {id}]
create_geometry(reg, id) == [reg EXCEPT !.geometries = @ \cup {id}]
update_geometry(reg, id) == reg
destroy_geometry(reg, id) == [reg EXCEPT !.geometries = @ \ {id}]

\* `panic!("Render buffer ID {} not found", ..)`
clear_render_buffer_panics(reg, o) == o.rb \notin reg.render_buffers
\* The two unwrap() of draw_geometry; an unknown texture is bound as 0.
draw_geometry_panics(reg, o) ==
    o.rb \notin reg.render_buffers \/ o.geo \notin reg.geometries

OpPanics(reg, o) ==
    IF o.op = "ClearRenderBuffer" THEN clear_render_buffer_panics(reg, o)
    ELSE draw_geometry_panics(reg, o)

\* update_command_list: the operations run in order up to the first panic.
\* The number of operations that ran.
update_command_list(reg, ops) ==
    LET bad == {k \in 1 .. Len(ops) : OpPanics(reg, ops[k])} IN
    IF bad = {} THEN Len(ops)
    ELSE (CHOOSE k \in bad : \A j \in bad : k <= j) - 1

\* Whether every id a draw list names was created by an earlier command.
ListKnown(known, ops) ==
    \A k \in 1 .. Len(ops) :
        /\ ops[k].rb \in known["render_buffers"]
        /\ ops[k].op = "DrawGeometry" =>
              /\ ops[k].geo \in known["geometries"]
              /\ ops[k].tex # NoTexture => ops[k].tex \in known["textures"]

CategoryOf(o) ==
    CASE o \in {"CreateTexture", "UpdateTexture", "DestroyTexture"} -> "textures"
      [] o \in {"CreateRenderBuffer", "DestroyRenderBuffer"} -> "render_buffers"
      [] OTHER -> "geometries"

IsCreate(o) == o \in {"CreateTexture", "CreateRenderBuffer", "CreateGeometry"}
IsDestroy(o) == o \in {"DestroyTexture", "DestroyRenderBuffer", "DestroyGeometry"}
\* The native handles left when a destroy finds its entry: gl::Delete* is
\* called inside `if let Some(..) = self.<map>.remove(&id)`.
Released(native, id, map) == IF id \in map THEN native \ {id} ELSE native

\* What the `match command` of render() does with one received command: the
\* executor's maps, its record, and the panic it ends in, if any.
Execute(e, cmd) ==
    LET o == cmd.op
        reg == e.reg
        c == CategoryOf(o)
        h == [e.hist EXCEPT !.applied = Append(@, cmd.seq)]
        count(hh) ==
            [hh EXCEPT !.created[c] = IF IsCreate(o) THEN @ + 1 ELSE @,
                       !.destroyed[c] = IF IsDestroy(o) THEN @ + 1 ELSE @,
                       !.known[c] = IF IsCreate(o) THEN @ \cup {cmd.id} ELSE @,
                       !.native[c] = IF IsCreate(o) THEN @ \cup {cmd.id}
                                     ELSE IF IsDestroy(o) THEN Released(@, cmd.id, reg[c])
                                     ELSE @,
                       !.absent_destroy = @ \/ (IsDestroy(o) /\ cmd.id \notin reg[c])]
        created_rb(old, new) ==
            [called |-> TRUE, id |-> cmd.id, found |-> cmd.tex \in old.textures,
             before |-> old.render_buffers, after |-> new.render_buffers]
    IN
    CASE o = "UpdateCommandList" ->
            LET done == update_command_list(reg, cmd.list) IN
            [e EXCEPT
                !.hist = [h EXCEPT !.list = [len |-> Len(cmd.list), done |-> done,
                                             known |-> ListKnown(e.hist.known, cmd.list),
                                             named_sent |-> cmd.named_sent]],
                !.fatal = IF done = Len(cmd.list) THEN ""
                          ELSE IF cmd.list[done + 1].op = "ClearRenderBuffer"
                               THEN "Render buffer ID not found"
                               ELSE "unwrap on a None value"]
      [] o = "CreateRenderBuffer" /\ create_render_buffer_panics(reg, cmd.tex) ->
            [e EXCEPT !.hist = [h EXCEPT !.rb = created_rb(reg, reg)],
                      !.fatal = "Texture ID not found"]
      [] OTHER ->
            LET new == CASE o = "CreateTexture" -> create_texture(reg, cmd.id)
                         [] o = "UpdateTexture" -> update_texture(reg, cmd.id)
                         [] o = "DestroyTexture" -> destroy_texture(reg, cmd.id)
                         [] o = "CreateRenderBuffer" -> create_render_buffer(reg, cmd.id)
                         [] o = "DestroyRenderBuffer" -> destroy_render_buffer(reg, cmd.id)
                         [] o = "CreateGeometry" -> create_geometry(reg, cmd.id)
                         [] o = "UpdateGeometry" -> update_geometry(reg, cmd.id)
                         [] OTHER -> destroy_geometry(reg, cmd.id)
                absent == ~IsCreate(o) /\ ~IsDestroy(o) /\ cmd.id \notin reg[c]
            IN
            [e EXCEPT
                !.hist = [count(h) EXCEPT
                            !.unbound = @ \/ absent,
                            !.rb = IF o = "CreateRenderBuffer"
                                   THEN created_rb(reg, new) ELSE @,
                            !.upd = IF absent
                                    THEN [called |-> TRUE, at |-> Len(h.applied),
                                          behind |-> Len(e.rest) - 1,
                                          changed |-> new # reg]
                                    ELSE @],
                !.reg = new]

\* Fault: the newest command is received first.
try_recv_newest(ch) == [cmd |-> ch[Len(ch)], rest |-> SubSeq(ch, 1, Len(ch) - 1)]

\* receiver.try_recv(): the oldest command of the channel.
try_recv(ch) == [cmd |-> Head(ch), rest |-> Tail(ch)]

\* OpenglCommandReceiver::render: `while let Ok(command) = try_recv()`.
RECURSIVE render(_)
render(e) ==
    IF e.rest = <<>> \/ e.fatal # "" THEN e
    ELSE LET r == try_recv(e.rest) IN
         render([Execute(e, r.cmd) EXCEPT !.rest = r.rest])

\* The loop of renderer_main is Running, started by r1, and no entry point has
\* been called.
RunningInit ==
    /\ RENDER_MUTEX = Some(<<>>)
    /\ lock = "free"
    /\ EXIT_RENDERER = FALSE
    /\ UL_RENDERER = "r1"
    /\ GL_RENDERER = "r1"
    /\ panicked = ""
    /\ rpc = [r \in Renderers |-> IF r = "r1" THEN "head" ELSE "idle"]
    /\ wakeup_by_timeout = [r \in Renderers |-> FALSE]
    /\ next_frame_in = [r \in Renderers |-> 0]
    /\ views = [r \in Renderers |-> {}]
    /\ views_updated = [r \in Renderers |-> NoViews]
    /\ funcs = [r \in Renderers |-> <<>>]
    /\ next_funcs = [r \in Renderers |-> <<>>]
    /\ force_redraw = [r \in Renderers |-> FALSE]
    /\ painted = [r \in Renderers |-> FALSE]
    /\ forced = [r \in Renderers |-> NotForced]
    /\ cpc = [c \in Clients |-> "idle"]
    /\ cwait = [c \in Clients |-> 0]
    /\ budget = MaxCalls
    /\ nextId = 1
    /\ status = [i \in CallIds |-> "unused"]
    /\ accepted_in = [i \in CallIds |-> ""]
    /\ executed = [i \in CallIds |-> 0]
    /\ exit_pending = FALSE
    /\ entries = 1

\* Whether a command keeps to the protocol, given the resources that are live
\* once the commands sent before it have been applied: a create names an id
\* that is not live, an update or destroy one that is, and a render buffer is
\* bound to a live texture.
ValidCommand(live, cmd) ==
    LET c == CategoryOf(cmd.op) IN
    CASE cmd.op = "UpdateCommandList" -> TRUE
      [] cmd.op = "CreateRenderBuffer" ->
            cmd.id \notin live[c] /\ cmd.tex \in live["textures"]
      [] IsCreate(cmd.op) -> cmd.id \notin live[c]
      [] OTHER -> cmd.id \in live[c]

LiveAfter(live, cmd) ==
    LET c == CategoryOf(cmd.op) IN
    CASE IsCreate(cmd.op) -> [live EXCEPT ![c] = @ \cup {cmd.id}]
      [] IsDestroy(cmd.op) -> [live EXCEPT ![c] = @ \ {cmd.id}]
      [] OTHER -> live

\* self.sender.send(command).unwrap()
Send(cmd) ==
    /\ Alive
    /\ UL_RENDERER # NoThread
    /\ sender.sent < MaxSends
    /\ channel' = Append(channel,
                          [cmd EXCEPT !.seq = sender.sent + 1,
                                      !.named_sent = ListKnown(sender.made, cmd.list)])
    /\ sender' = [sent |-> sender.sent + 1,
                  live |-> LiveAfter(sender.live, cmd),
                  made |-> IF IsCreate(cmd.op)
                           THEN [sender.made EXCEPT ![CategoryOf(cmd.op)] = @ \cup {cmd.id}]
                           ELSE sender.made,
                  valid |-> [sender.valid EXCEPT ![CategoryOf(cmd.op)] =
                                @ /\ ValidCommand(sender.live, cmd)]]
    /\ UNCHANGED <<gvars, rvars, cvars, gl_renderer, gl_hist, viewvars>>

SendCreateTexture == \E i \in TextureIds : Send(Command("CreateTexture", i, 0, <<>>))
SendUpdateTexture == \E i \in TextureIds : Send(Command("UpdateTexture", i, 0, <<>>))
SendDestroyTexture == \E i \in TextureIds : Send(Command("DestroyTexture", i, 0, <<>>))
SendCreateRenderBuffer ==
    \E i \in RenderBufferIds, t \in TextureIds : Send(Command("CreateRenderBuffer", i, t, <<>>))
SendDestroyRenderBuffer ==
    \E i \in RenderBufferIds : Send(Command("DestroyRenderBuffer", i, 0, <<>>))
SendCreateGeometry == \E i \in GeometryIds : Send(Command("CreateGeometry", i, 0, <<>>))
SendUpdateGeometry == \E i \in GeometryIds : Send(Command("UpdateGeometry", i, 0, <<>>))
SendDestroyGeometry == \E i \in GeometryIds : Send(Command("DestroyGeometry", i, 0, <<>>))
SendUpdateCommandList ==
    \E l \in DrawLists : Send(Command("UpdateCommandList", 0, 0, l))

\* gl_renderer.render() of a paint: every command of the channel is executed;
\* a panic aborts the process.
Render ==
    /\ Alive
    /\ GL_RENDERER # NoThread
    /\ channel # <<>>
    /\ LET e == render([reg |-> gl_renderer, hist |-> gl_hist, fatal |-> "",
                        rest |-> channel]) IN
       /\ gl_renderer' = e.reg
       /\ gl_hist' = e.hist
       /\ channel' = e.rest
       /\ IF e.fatal # "" THEN Abort(e.fatal)
          ELSE UNCHANGED <<gvars, rvars, cvars>>
    /\ UNCHANGED <<sender, viewvars>>

GpuNext ==
    \/ SendCreateTexture
    \/ SendUpdateTexture
    \/ SendDestroyTexture
    \/ SendCreateRenderBuffer
    \/ SendDestroyRenderBuffer
    \/ SendCreateGeometry
    \/ SendUpdateGeometry
    \/ SendDestroyGeometry
    \/ SendUpdateCommandList
    \/ Render

\* The loop is running and nothing has been sent or called yet.
SeqInit == RunningInit /\ GpuInit /\ ViewInit

GpuSpec == SeqInit /\ [][GpuNext]_vars

\* ------------------------------------------------- the view entry points
\* The entry points of view.rs as the loop executes their closures, one whole
\* call at a time, and the paint of an iteration between them.
TheLoop == "r1"

\* The render target of every view: width and height.
Target == [width |-> 1, height |-> 1]
Need == Target.width * Target.height * 4
BufSizes == {Need - 1, Need, Need + 1}

\* Fault: every view is marked.
NeedsPaintAll(vs, up) == vs

\* The views the paint calls set_needs_paint(true) on.
NeedsPaint(vs, up) == {v \in vs : up[v] # Absent /\ up[v] < FreshMs}

\* Fault: a missing view is found.
views_get_any(vs, v) == TRUE

\* views.get(&view_id) is Some
views_get(vs, v) == v \in vs

\* Fault: every texture id has a handle.
get_texture_handle_any(reg, id) == TRUE

\* OpenglCommandReceiver::get_texture_handle is Some
get_texture_handle(reg, id) == id \in reg.textures

\* The closure of copy_from_view on a buffer b: the buffer afterwards and the
\* message printed.
copy_from_view(vs, target, reg, v, b) ==
    IF ~views_get(vs, v) THEN [buf |-> b, report |-> ""]
    ELSE IF ~get_texture_handle(reg, target[v])
    THEN [buf |-> [i \in 1 .. Len(b) |-> "zero"], report |-> ""]
    ELSE IF Len(b) < Need
    THEN [buf |-> b, report |-> "Buffer size too small"]
    ELSE [buf |-> [i \in 1 .. Len(b) |-> IF i <= Need THEN "pixel" ELSE b[i]],
          report |-> IF Len(b) > Need
                     THEN "Warning: buffer size larger than needed" ELSE ""]

ViewFrame ==
    UNCHANGED <<gvars, cvars, rpc, wakeup_by_timeout, next_frame_in, funcs,
                next_funcs, painted, forced, channel, gl_hist, sender>>

\* `let id = Arc::new(AtomicU32::new(0))`: what create_view returns when its
\* closure has not stored an id.
NoId == 0

\* Fault: a rejected create_view returns an id no view has had.
CreateViewReturnsFresh(accepted, id) == IF accepted THEN id ELSE id + 1

\* `id.load(Ordering::SeqCst)`: the id the closure stored, or the initial
\* value of the cell when the closure never ran.
CreateViewReturns(accepted, id) == IF accepted THEN id ELSE NoId

\* ultralightui_create_view: renderer_run either has the loop run the
\* closure, which stores the id, or returns false at once with no list in the
\* mailbox; the id cell is loaded and returned in both cases.
CreateView ==
    /\ Alive
    /\ Len(ret) < MaxCreates
    /\ IF Accepts(RENDER_MUTEX)
       THEN LET t == Task(0, "create_view", 0, TRUE)
                id == Cardinality(views[TheLoop])
            IN
            /\ id \in ViewIds
            /\ ~TaskPanics(t)
            /\ views' = [views EXCEPT ![TheLoop] = TaskViews(t, @)]
            /\ views_updated' = [views_updated EXCEPT
                                    ![TheLoop] = TaskUpdated(t, views[TheLoop], @)]
            /\ ret' = Append(ret, CreateViewReturns(TRUE, id))
            /\ last_touch' = [last_touch EXCEPT ![id] = 0]
            /\ render_target' = [render_target EXCEPT ![id] = NoTexture]
       ELSE /\ ret' = Append(ret, CreateViewReturns(FALSE, Cardinality(views[TheLoop])))
            /\ UNCHANGED <<views, views_updated, last_touch, render_target>>
    /\ UNCHANGED <<force_redraw, gl_renderer, marked, buf, copy>>
    /\ ViewFrame

\* What a closure that touches view v does: view_set_size, report_input.
Touch(kind, v) ==
    LET t == Task(0, kind, v, TRUE) IN
    /\ Alive
    /\ Accepts(RENDER_MUTEX)
    /\ views_updated' = [views_updated EXCEPT ![TheLoop] = TaskUpdated(t, views[TheLoop], @)]
    /\ force_redraw' = [force_redraw EXCEPT ![TheLoop] = @ \/ TaskForce(t)]
    /\ last_touch' = IF v \in views[TheLoop] THEN [last_touch EXCEPT ![v] = 0]
                     ELSE last_touch
    /\ UNCHANGED <<views, gl_renderer, ret, marked, render_target, buf, copy>>
    /\ ViewFrame

ViewSetSize == \E v \in ViewIds : Touch("view_set_size", v)
ReportInput == \E v \in ViewIds : Touch("report_input", v)

RemoveView ==
    \E v \in ViewIds :
        /\ Alive
        /\ Accepts(RENDER_MUTEX)
        /\ views' = [views EXCEPT ![TheLoop] = TaskViews(Task(0, "remove_view", v, TRUE), @)]
        /\ UNCHANGED <<views_updated, force_redraw, gl_renderer, viewvars>>
        /\ ViewFrame

CopyFromView ==
    \E v \in ViewIds, n \in BufSizes :
        LET vs == views[TheLoop]
            out == copy_from_view(vs, render_target, gl_renderer, v, [i \in 1 .. n |-> "old"])
        IN
        /\ Alive
        /\ IF v \in vs /\ GL_RENDERER = NoThread
           THEN Abort("GL Renderer not initialized") /\ UNCHANGED seqvars
           ELSE /\ buf' = out.buf
                /\ copy' = [called |-> TRUE, view |-> v, size |-> n, present |-> v \in vs,
                            resolved |-> render_target[v] \in gl_renderer.textures,
                            report |-> out.report]
                /\ UNCHANGED <<views, views_updated, force_redraw, gl_renderer, ret,
                               marked, last_touch, render_target>>
                /\ ViewFrame

\* The texture the engine gives the render target of view v.
TextureOf(v) == v + 1

\* The paint of an iteration: the activity pass, then ul_renderer.update() and
\* render(), in which the engine draws any of the views, giving their render
\* targets a texture and sending its CreateTexture, and gl_renderer.render(),
\* which executes it.
Paint ==
    LET vs == views[TheLoop] IN
    /\ Alive
    /\ rpc[TheLoop] = "head"
    /\ marked' = NeedsPaint(vs, views_updated[TheLoop])
    /\ views_updated' = [views_updated EXCEPT ![TheLoop] = PaintUpdated(vs, @)]
    /\ force_redraw' = [force_redraw EXCEPT ![TheLoop] = FALSE]
    /\ \E drawn \in SUBSET vs :
          /\ render_target' = [v \in ViewIds |->
                                  IF v \in drawn THEN TextureOf(v) ELSE render_target[v]]
          /\ gl_renderer' = [gl_renderer EXCEPT
                                !.textures = @ \cup {TextureOf(v) : v \in drawn}]
    /\ UNCHANGED <<views, ret, last_touch, buf, copy>>
    /\ ViewFrame

\* TickMs pass with the loop waiting for its next frame.
ViewTick ==
    LET older(up) == [v \in ViewIds |->
                        IF up[v] = Absent THEN Absent ELSE Min(up[v] + TickMs, FreshMs)]
    IN
    /\ Alive
    /\ rpc[TheLoop] = "head"
    /\ ~force_redraw[TheLoop]
    /\ views_updated' = [views_updated EXCEPT ![TheLoop] = older(@)]
    /\ last_touch' = older(last_touch)
    /\ UNCHANGED <<views, force_redraw, gl_renderer, ret, marked, render_target, buf, copy>>
    /\ ViewFrame

\* The view registry and its activity over time.
ViewNext ==
    \/ CreateView
    \/ ViewSetSize
    \/ ReportInput
    \/ RemoveView
    \/ Paint
    \/ ViewTick

ViewSpec == SeqInit /\ [][ViewNext]_vars

\* Read-back from the views of the registry.
CopyNext ==
    \/ CreateView
    \/ RemoveView
    \/ Paint
    \/ CopyFromView

CopySpec == SeqInit /\ [][CopyNext]_vars

\* ------------------------------------------------------------ shutdown
\* What is left of the executor's maps and of its native handles when
\* renderer_main returns: gl_renderer is dropped, and OpenglCommandReceiver has
\* no Drop that would release the handles its maps hold.
DroppedMaps == [c \in Categories |-> {}]
DroppedNative(native) == native

\* ultralightui_exit is called and the loop leaves: the mailbox is cleared, the
\* handles are taken, and renderer_main returns, dropping its locals, the
\* executor and the receiving end of the channel among them.
Stop ==
    /\ Alive
    /\ rpc[TheLoop] = "head"
    /\ EXIT_RENDERER' = TRUE
    /\ RENDER_MUTEX' = Cleared
    /\ UL_RENDERER' = NoThread
    /\ GL_RENDERER' = NoThread
    /\ rpc' = [rpc EXCEPT ![TheLoop] = "idle"]
    /\ views' = [views EXCEPT ![TheLoop] = {}]
    /\ views_updated' = [views_updated EXCEPT ![TheLoop] = NoViews]
    /\ channel' = <<>>
    /\ gl_renderer' = DroppedMaps
    /\ gl_hist' = [gl_hist EXCEPT !.native = DroppedNative(@)]
    /\ UNCHANGED <<lock, panicked, wakeup_by_timeout, next_frame_in, funcs, next_funcs,
                   force_redraw, painted, forced, cvars, sender, viewvars>>

ShutdownNext ==
    \/ GpuNext
    \/ Stop

ShutdownSpec == SeqInit /\ [][ShutdownNext]_vars

\* The view entry points called before and after the loop has stopped.
StoppedViewNext ==
    \/ ViewNext
    \/ Stop

StoppedViewSpec == SeqInit /\ [][StoppedViewNext]_vars

\* ------------------------------------------------ an iteration as a whole
\* One iteration of the loop with an empty task list, from the loop condition
\* to the return of the wait: after a timed-out wait it sets the deadline and
\* paints, gl_renderer.render() being the last call of the paint; the wait
\* then either runs to the deadline, or a renderer_run ends it early when the
\* deadline is still ahead.
Iteration ==
    /\ Alive
    /\ rpc[TheLoop] = "head"
    /\ ~LoopExits(EXIT_RENDERER)
    /\ LET w    == Repaints(wakeup_by_timeout[TheLoop], next_frame_in[TheLoop])
           left == IF w THEN FrameMs ELSE next_frame_in[TheLoop]
           e    == IF w
                   THEN render([reg |-> gl_renderer, hist |-> gl_hist, fatal |-> "",
                                rest |-> channel])
                   ELSE [reg |-> gl_renderer, hist |-> gl_hist, fatal |-> "",
                         rest |-> channel]
       IN /\ gl_renderer' = e.reg
          /\ gl_hist' = e.hist
          /\ channel' = e.rest
          /\ IF e.fatal # ""
             THEN Abort(e.fatal)
             ELSE /\ painted' = [painted EXCEPT ![TheLoop] = w]
                  /\ \E timed_out \in BOOLEAN :
                        /\ left = 0 => timed_out
                        /\ wakeup_by_timeout' =
                              [wakeup_by_timeout EXCEPT ![TheLoop] = timed_out]
                        /\ next_frame_in' = [next_frame_in EXCEPT
                                ![TheLoop] = IF timed_out THEN 0 ELSE left]
                  /\ UNCHANGED <<gvars, rpc, views, views_updated, funcs,
                                 next_funcs, force_redraw, forced, cvars>>
    /\ UNCHANGED <<sender, viewvars>>

FrameNext ==
    \/ SendCreateTexture
    \/ SendUpdateTexture
    \/ SendDestroyTexture
    \/ SendCreateRenderBuffer
    \/ SendDestroyRenderBuffer
    \/ SendCreateGeometry
    \/ SendUpdateGeometry
    \/ SendDestroyGeometry
    \/ SendUpdateCommandList
    \/ Iteration

FrameSpec == SeqInit /\ [][FrameNext]_vars

\* ------------------------------------------------------- specifications
RendererStep(r) ==
    \/ Enter(r)
    \/ SetUl(r)
    \/ SetGl(r)
    \/ Install(r)
    \/ LoopHead(r)
    \/ DrainTake(r)
    \/ ExecTask(r)
    \/ DrainPut(r)
    \/ WaitReturn(r)
    \/ Clear(r)
    \/ TakeUl(r)
    \/ TakeGl(r)

\* The steps a client takes inside a call it has made.
ClientStep(c) ==
    \/ RendererRunReturn(c)
    \/ WaitRenderInitCheck(c)
    \/ WaitForTimeout(c)
    \/ ExitNotify(c)
    \/ ExitCheck(c)

\* A client calls an entry point.
ClientCall(c) ==
    \/ \E k \in PendingKinds, v \in ViewArgs : RendererPending(c, k, v)
    \/ \E k \in RunKinds, v \in ViewArgs : RendererRun(c, k, v)
    \/ WaitRenderInit(c)
    \/ ExitStore(c)

Next ==
    \/ \E r \in Renderers : RendererStep(r)
    \/ \E c \in Clients : ClientStep(c)
    \/ \E c \in Clients : ClientCall(c)
    \/ Tick

Spec == Init /\ [][Next]_vars

\* -------------------------------------------- entries that race on a handle
\* UL_RENDERER and GL_RENDERER are static mut, read and written with no
\* synchronisation. When two threads are in renderer_main's replace of the
\* same handle at once (a data race), the later one may read None although
\* the other has stored its handle, so that neither panics, and either store
\* may be the one that stays.
SetUlRaced(r) ==
    /\ Alive
    /\ UNCHANGED seqvars
    /\ rpc[r] = "set_ul"
    /\ \E q \in Renderers \ {r} : rpc[q] = "set_gl" /\ UL_RENDERER = q
    /\ UL_RENDERER' \in {UL_RENDERER, r}
    /\ rpc' = [rpc EXCEPT ![r] = "set_gl"]
    /\ UNCHANGED <<RENDER_MUTEX, lock, EXIT_RENDERER, GL_RENDERER, panicked,
                   locals, cvars>>

SetGlRaced(r) ==
    /\ Alive
    /\ UNCHANGED seqvars
    /\ rpc[r] = "set_gl"
    /\ \E q \in Renderers \ {r} : rpc[q] = "install" /\ GL_RENDERER = q
    /\ GL_RENDERER' \in {GL_RENDERER, r}
    /\ rpc' = [rpc EXCEPT ![r] = "install"]
    /\ UNCHANGED <<RENDER_MUTEX, lock, EXIT_RENDERER, UL_RENDERER, panicked,
                   locals, cvars>>

\* Every step of Spec, and the entries whose replace races with another's.
EntryNext ==
    \/ Next
    \/ \E r \in Renderers : SetUlRaced(r)
    \/ \E r \in Renderers : SetGlRaced(r)

EntrySpec == Init /\ [][EntryNext]_vars

\* The steps of renderer_main once it has been entered.
LoopStep(r) ==
    \/ SetUl(r)
    \/ SetGl(r)
    \/ Install(r)
    \/ LoopHead(r)
    \/ DrainTake(r)
    \/ ExecTask(r)
    \/ DrainPut(r)
    \/ WaitReturn(r)
    \/ Clear(r)
    \/ TakeUl(r)
    \/ TakeGl(r)

\* Scheduling: a thread inside renderer_main or inside an entry point keeps
\* running, time passes, and a thread that needs RENDER_MUTEX gets it when it
\* is free again and again (parking_lot's mutex is eventually fair). Nothing
\* obliges a thread to enter renderer_main or to call an entry point.
Fairness ==
    /\ \A r \in Renderers : WF_vars(LoopStep(r))
    /\ \A c \in Clients : SF_vars(ClientStep(c))
    /\ WF_vars(Tick)

FairSpec == Init /\ [][Next]_vars /\ Fairness

\* ------------------------------------------------------------ the claims
Ids(list) == {list[k].id : k \in 1 .. Len(list)}

\* The submissions held by the mailbox or by a loop that is draining it.
Held ==
    Ids(RENDER_MUTEX.funcs)
        \cup UNION {Ids(funcs[r]) \cup Ids(next_funcs[r]) : r \in Renderers}

\* No loop has a task list installed.
NoLoop == MailboxPhase = "Stopped"

\* C1: renderer_pending returns true and appends the task (without a signal)
\* exactly when the mailbox holds a list; otherwise it returns false, the
\* mailbox is left as it was, and the task is never stored nor executed.
C1_PendingAcceptsIffList ==
    /\ [](\A i \in CallIds :
            status[i] = "pending_false" => executed[i] = 0 /\ i \notin Held)
    /\ [][\A i \in CallIds :
            (status[i] = "unused" /\ status'[i] \in {"pending_true", "pending_false"})
            => IF RENDER_MUTEX.is_some
               THEN /\ status'[i] = "pending_true"
                    /\ RENDER_MUTEX'.is_some
                    /\ Len(RENDER_MUTEX'.funcs) = Len(RENDER_MUTEX.funcs) + 1
                    /\ SubSeq(RENDER_MUTEX'.funcs, 1, Len(RENDER_MUTEX.funcs))
                            = RENDER_MUTEX.funcs
                    /\ RENDER_MUTEX'.funcs[Len(RENDER_MUTEX'.funcs)].id = i
                    /\ ~RENDER_MUTEX'.funcs[Len(RENDER_MUTEX'.funcs)].sig
               ELSE /\ status'[i] = "pending_false"
                    /\ RENDER_MUTEX' = RENDER_MUTEX]_vars

C1_Witness ==
    \E i, j \in CallIds :
        /\ status[i] = "pending_false"
        /\ status[j] = "pending_true"
        /\ j \in Ids(RENDER_MUTEX.funcs)

\* C2: an accepted renderer_run does not return before the loop has executed
\* its task at least once, whether the task returns true or false; with no
\* list in the mailbox it returns false at once, without parking.
C2_RunReturnsAfterExecution ==
    /\ [](\A i \in CallIds : status[i] = "run_true" => executed[i] >= 1)
    /\ [][\A i \in CallIds :
            (status[i] = "unused" /\ status'[i] \in {"run_blocked", "run_true", "run_false"})
            => IF RENDER_MUTEX.is_some
               THEN /\ status'[i] = "run_blocked"
                    /\ \E c \in Clients : cpc'[c] = "run_blocked" /\ cwait'[c] = i
               ELSE /\ status'[i] = "run_false"
                    /\ cpc' = cpc]_vars

C2_Witness ==
    \E i, j \in CallIds :
        /\ status[i] = "run_false"
        /\ status[j] = "run_true"
        /\ executed[j] >= 1
        /\ j \in Ids(RENDER_MUTEX.funcs)

\* C3 (as claimed): no caller of an accepted renderer_run remains blocked once
\* the loop is Stopped.
C3_NoCallerBlockedOnceStopped ==
    (Alive /\ NoLoop) => \A c \in Clients : cpc[c] # "run_blocked"

\* C4 (as claimed): once the mailbox has been cleared, every task that was
\* accepted while the loop was Running has been executed at least once.
C4_FinalDrainExecutesAccepted ==
    (Alive /\ NoLoop) =>
        \A i \in CallIds : accepted_in[i] = "Running" => executed[i] >= 1

\* C5: ultralightui_exit returns only when it sees the mailbox without a list
\* and no loop installed, and every exit call returns in the end, whatever
\* tasks are scheduled (a recurring task that forces a redraw in every cycle
\* included), unless the process aborts.
C5_ExitReturnsWhenStopped ==
    /\ [][\A i \in CallIds :
            (status[i] = "exit_waiting" /\ status'[i] = "exit_returned")
            => ~RENDER_MUTEX.is_some /\ lock = "free" /\ NoLoop]_vars
    /\ \A i \in CallIds :
            (status[i] = "exit_waiting") ~> (status[i] = "exit_returned" \/ ~Alive)

C5_Witness ==
    \E i, j \in CallIds, r \in Renderers :
        /\ status[i] = "exit_returned"
        /\ executed[j] = MaxExec
        /\ forced[r].on
        /\ LoopPhase(rpc[r]) = "Stopped"

\* C6 (as claimed): when the mailbox is cleared to "no list" and left to the
\* other threads, both renderer handles have already been released.
C6_TeardownPrecedesStopped ==
    [][(RENDER_MUTEX.is_some /\ ~RENDER_MUTEX'.is_some /\ lock' = "free" /\ Alive')
        => (UL_RENDERER' = NoThread /\ GL_RENDERER' = NoThread)]_vars

\* C7 (as claimed): a loop leaves Running only for an exit request made since
\* the last loop stopped, never for the request that stopped an earlier cycle.
C7_FreshCycleIgnoresOldExit ==
    \A r \in Renderers : (Alive /\ rpc[r] = "clear") => exit_pending

\* The moves of a renderer thread through the lifecycle; the last one is the
\* return of renderer_main, after which the thread may enter it again.
PhaseMoves ==
    {<<"Uninitialized", "Uninitialized">>, <<"Uninitialized", "Running">>,
     <<"Running", "Running">>, <<"Running", "Draining">>,
     <<"Draining", "Draining">>, <<"Draining", "Stopped">>,
     <<"Stopped", "Stopped">>, <<"Stopped", "Uninitialized">>}

\* What a thread other than the loop finds in the mailbox when it holds the
\* mutex: the loop holds the mutex from lock.take() to lock.replace().
SeenByOthers == Alive /\ lock \notin Renderers

\* C8 (as claimed): seen by the other threads, the mailbox holds a list
\* exactly while the loop is Running.
C8_ListExactlyWhileRunning ==
    SeenByOthers => (RENDER_MUTEX.is_some <=> MailboxPhase = "Running")

\* C8 (amended): a renderer thread only moves Uninitialized -> Running ->
\* Draining -> Stopped; seen by the other threads, the mailbox holds a list
\* exactly while the loop is Running or Draining; a task is executed only by a
\* Running loop that holds the mutex, never once the mailbox has been cleared.
C8_ListWhileRunningOrDraining ==
    /\ [](SeenByOthers =>
            (RENDER_MUTEX.is_some <=> MailboxPhase \in {"Running", "Draining"}))
    /\ [][\A r \in Renderers :
            Alive' => <<LoopPhase(rpc[r]), LoopPhase(rpc'[r])>> \in PhaseMoves]_vars
    /\ [][executed' # executed =>
            \E r \in Renderers :
                /\ lock = r
                /\ LoopPhase(rpc[r]) = "Running"
                /\ LoopPhase(rpc'[r]) = "Running"]_vars

C8_Witness ==
    /\ SeenByOthers
    /\ RENDER_MUTEX.funcs # <<>>
    /\ MailboxPhase = "Draining"
    /\ \E i \in CallIds : executed[i] >= 1

\* C9 (as claimed): a thread waiting for render ready is released in the end
\* once the loop is Running (unless the process aborts).
C9_WaitersReleasedOnceRunning ==
    \A i \in CallIds :
        (status[i] = "init_waiting" /\ MailboxPhase = "Running")
            ~> (status[i] = "init_returned" \/ ~Alive)

\* C9 (amended): ultralightui_wait_render_init returns only when it sees a
\* task list in the mailbox; the mailbox holds a list only while both renderer
\* handles are set; and a waiting thread (one of several, too) is released in
\* the end if the loop stays Running, that is unless the loop stops first.
C9_WaitersReleasedWhileRunning ==
    /\ [](RENDER_MUTEX.is_some => (UL_RENDERER # NoThread /\ GL_RENDERER # NoThread))
    /\ [][\A i \in CallIds :
            (status[i] = "init_waiting" /\ status'[i] = "init_returned")
            => RENDER_MUTEX.is_some /\ lock = "free"]_vars
    /\ \A i \in CallIds :
            (status[i] = "init_waiting" /\ MailboxPhase = "Running")
                ~> (status[i] = "init_returned" \/ MailboxPhase # "Running")

C9_Witness ==
    \E i, j \in CallIds :
        /\ i # j
        /\ status[i] = "init_returned"
        /\ status[j] = "init_returned"
        /\ accepted_in[i] = "" /\ accepted_in[j] = ""
        /\ MailboxPhase = "Running"
        /\ cpc = [c \in Clients |-> "idle"]

\* C10: a view_set_size task sets force_redraw; a batch that set it ends by
\* `continue`, not by the wait on the frame deadline, with wakeup_by_timeout
\* set; and the iteration that follows repaints, whatever time is left until
\* next_frame_time.
C10_ForceRedrawRepaintsNext ==
    /\ [](\A r \in Renderers :
            (forced[r].on /\ rpc[r] \in {"drain", "exec"}) => painted[r])
    /\ [][\A r \in Renderers :
            (Alive' /\ rpc[r] = "exec" /\ funcs[r] # <<>> /\ funcs'[r] # funcs[r]
                /\ Head(funcs[r]).kind = "view_set_size") => force_redraw'[r]]_vars
    /\ [][\A r \in Renderers :
            (Alive' /\ rpc[r] = "exec" /\ rpc'[r] # "exec" /\ force_redraw[r])
            => rpc'[r] = "head" /\ wakeup_by_timeout'[r]]_vars
    /\ [][\A r \in Renderers :
            (Alive' /\ rpc[r] = "head" /\ wakeup_by_timeout[r] /\ rpc'[r] # "head")
            => \/ rpc'[r] = "clear" /\ EXIT_RENDERER
               \/ rpc'[r] = "drain" /\ painted'[r] /\ next_frame_in'[r] = FrameMs]_vars

C10_Witness ==
    \E r \in Renderers :
        /\ rpc[r] = "drain"
        /\ forced[r].on
        /\ forced[r].left = FrameMs
        /\ painted[r]
        /\ \E i \in CallIds : status[i] = "run_true"

\* The tasks the loop and the mailbox hold, in the order in which the loop
\* runs them: the ones kept in this drain, the rest of the taken batch, and the
\* ones submitted since.
Scheduled(r) == next_funcs[r] \o funcs[r] \o RENDER_MUTEX.funcs

Increasing(list) ==
    \A a, b \in 1 .. Len(list) : a < b => list[a].id < list[b].id

\* C11: the tasks of a drained batch are executed in the order of their
\* submission: the batch is the mailbox's list as it was taken, the list is in
\* submission order, and the loop executes the first task not yet executed.
C11_BatchInSubmissionOrder ==
    /\ [](\A r \in Renderers : Increasing(Scheduled(r)))
    /\ [][\A r \in Renderers :
            (Alive' /\ rpc[r] = "drain" /\ rpc'[r] = "exec")
            => funcs'[r] = RENDER_MUTEX.funcs]_vars
    /\ [][\A i \in CallIds :
            executed'[i] # executed[i]
            => \E r \in Renderers :
                /\ rpc[r] = "exec"
                /\ funcs[r] # <<>>
                /\ Head(funcs[r]).id = i
                /\ funcs'[r] = Tail(funcs[r])
                /\ \A k \in 1 .. Len(funcs'[r]) : funcs'[r][k].id > i]_vars

C11_Witness ==
    \E r \in Renderers, i, j \in CallIds :
        /\ rpc[r] = "exec"
        /\ i < j
        /\ executed[i] = 1 /\ executed[j] = 0
        /\ Len(funcs[r]) = 1
        /\ Head(funcs[r]).id = j
        /\ next_funcs[r] = <<>>

\* C12: a task that returned false is dropped after that execution and is
\* never executed again; a task that returned true is kept, once, and is
\* handed back to the mailbox for the next drain, in which it is executed once.
C12_KeepDecidesRescheduling ==
    /\ [](\A r \in Renderers : \A k \in 1 .. Len(Scheduled(r)) :
            LET t == Scheduled(r)[k] IN
            executed[t.id] >= 1 => t.kind \in {"recurring", "recurring_force"})
    /\ [][\A r \in Renderers :
            (Alive' /\ rpc[r] = "exec" /\ funcs[r] # <<>> /\ funcs'[r] # funcs[r])
            => LET t == Head(funcs[r]) IN
               IF t.kind \in {"recurring", "recurring_force"}
               THEN next_funcs'[r] = Append(next_funcs[r], t)
               ELSE /\ next_funcs'[r] = next_funcs[r]
                    /\ t.id \notin Held']_vars
    /\ [][\A r \in Renderers :
            (Alive' /\ rpc[r] = "exec" /\ rpc'[r] # "exec")
            => RENDER_MUTEX'.funcs = next_funcs[r]]_vars
    /\ [][\A i \in CallIds : executed'[i] # executed[i] => i \in Held]_vars

C12_Witness ==
    \E r \in Renderers, i, j \in CallIds :
        /\ rpc[r] = "exec"
        /\ funcs[r] = <<>>
        /\ executed[i] = MaxExec
        /\ executed[j] = 1
        /\ Ids(next_funcs[r]) = {i}

\* C13: the Command Executor receives the commands in exactly the order they
\* were sent, each once and none skipped: the commands received so far are the
\* first ones sent, in order, and the channel holds the rest, in order. Hence a
\* Create is applied before any later command that names its id: when the
\* backend keeps to the protocol no update finds its id missing, and a draw
\* list finds created every id for which a Create was sent before it.
C13_CommandsInSentOrder ==
    /\ \A k \in 1 .. Len(gl_hist.applied) : gl_hist.applied[k] = k
    /\ \A k \in 1 .. Len(channel) : channel[k].seq = Len(gl_hist.applied) + k
    /\ Len(gl_hist.applied) + Len(channel) = sender.sent
    /\ (\A c \in Categories : sender.valid[c]) => ~gl_hist.unbound
    /\ gl_hist.list.named_sent => gl_hist.list.known

\* Four commands were sent and all have been executed, the last of them a
\* draw list that clears a render buffer created before it.
C13_Witness ==
    /\ Alive
    /\ \A c \in Categories : sender.valid[c]
    /\ channel = <<>>
    /\ gl_hist.applied = <<1, 2, 3, 4>>
    /\ gl_renderer.render_buffers # {}
    /\ gl_hist.list.len = 1
    /\ gl_hist.list.named_sent
    /\ gl_hist.list.done = 1
\* C14: in each resource category, while every command sent for the category
\* named a valid id, the registry holds as many entries as creates minus
\* destroys have been executed.
C14_RegistryHoldsCreatesMinusDestroys ==
    \A c \in Categories :
        sender.valid[c] =>
            /\ gl_hist.destroyed[c] <= gl_hist.created[c]
            /\ Cardinality(gl_renderer[c]) = gl_hist.created[c] - gl_hist.destroyed[c]

\* Two textures were created, one was updated and one destroyed, in some
\* order, and one entry is left.
C14_Witness ==
    /\ sender.valid["textures"]
    /\ gl_hist.created["textures"] = 2
    /\ gl_hist.destroyed["textures"] = 1
    /\ Len(gl_hist.applied) = 4
    /\ Cardinality(gl_renderer.textures) = 1
C16_MarkedIffRecentActivity ==
    [][Paint => marked' = {v \in views[TheLoop] :
                              last_touch[v] # Absent /\ last_touch[v] < FreshMs}]_vars

\* A paint has marked a view with recent activity and left out a view that
\* has been idle for FreshMs.
C16_Witness ==
    \E v, w \in views[TheLoop] :
        /\ v \in marked
        /\ last_touch[v] < FreshMs
        /\ w \notin marked
        /\ last_touch[w] = FreshMs
        /\ views_updated[TheLoop][w] = Absent

\* C17: the ids create_view returns are 0, 1, 2, .. in the order of the
\* calls, whatever remove_view calls come between them.
C17_IdsSequentialFromZero ==
    \A k \in 1 .. Len(ret) : ret[k] = k - 1

\* C18: a copy_from_view of a view id that is not in the registry leaves
\* every byte of the buffer as it was, prints nothing and returns.
C18_AbsentViewLeavesBuffer ==
    (copy.called /\ ~copy.present) =>
        /\ panicked = ""
        /\ Len(buf) = copy.size
        /\ \A i \in 1 .. Len(buf) : buf[i] = "old"
        /\ copy.report = ""

\* A copy from a view that was created and then removed.
C18_Witness ==
    /\ copy.called
    /\ ~copy.present
    /\ \E k \in 1 .. Len(ret) : ret[k] = copy.view
    /\ \A i \in 1 .. Len(buf) : buf[i] = "old"

\* C19: a copy_from_view of a view of the registry into a buffer smaller than
\* width * height * 4 reports the shortfall and leaves every byte of the buffer
\* as it was, whether the texture of the view is resolved or not.
C19_ShortBufferReportedUntouched ==
    (copy.called /\ copy.present /\ copy.size < Need) =>
        /\ copy.report = "Buffer size too small"
        /\ \A i \in 1 .. Len(buf) : buf[i] = "old"

\* C20: copy_from_view zero-fills the buffer when the view is in the registry
\* and the texture of its render target has no handle, and writes no zero
\* otherwise.
C20_ZeroFilledIffUnresolved ==
    copy.called =>
        IF copy.present /\ ~copy.resolved
        THEN \A i \in 1 .. Len(buf) : buf[i] = "zero"
        ELSE \A i \in 1 .. Len(buf) : buf[i] # "zero"

\* A copy from a view whose texture is not resolved, while the texture of
\* another view is, has zero-filled a buffer larger than needed.
C20_Witness ==
    /\ copy.called
    /\ copy.present
    /\ ~copy.resolved
    /\ copy.size > Need
    /\ \A i \in 1 .. Len(buf) : buf[i] = "zero"
    /\ \E w \in views[TheLoop] : render_target[w] \in gl_renderer.textures
\* A step in which a view registry, the key set or a timestamp of an activity
\* map, or a map of the Resource Registry changes (the ageing of the
\* timestamps is the passing of time, not a write).
RegistriesWritten ==
    \/ views' # views
    \/ \E r \in Renderers, v \in ViewIds : views_updated'[r][v] < views_updated[r][v]
    \/ \E r \in Renderers, v \in ViewIds :
          views_updated'[r][v] = Absent /\ views_updated[r][v] # Absent
    \/ gl_renderer' # gl_renderer

C22_MutexFreeWhileTasksRun ==
    \A r \in Renderers : (rpc[r] = "exec" /\ funcs[r] # <<>>) => lock # r
\* C23: once the loop has stopped, no native handle that the Command Executor
\* created is left unreleased.
C23_NoHandleLeftWhenStopped ==
    (Alive /\ rpc[TheLoop] = "idle") =>
        \A c \in Categories : gl_hist.native[c] = {}
\* C26: a Destroy Texture, Destroy RenderTarget or Destroy Geometry for an id
\* that is not in its registry is fatal: once one has been executed the
\* process has aborted.
C26_AbsentDestroyIsFatal ==
    gl_hist.absent_destroy => ~Alive

\* C27: a ClearRenderBuffer or DrawGeometry that names an unknown render
\* buffer or geometry does not abort: every operation of a draw list is run,
\* and no panic comes from a draw operation.
C27_UnknownDrawIdNotFatal ==
    /\ gl_hist.list.done = gl_hist.list.len
    /\ panicked \in {"", "Texture ID not found"}
\* C24: the id a create_view returns is not the id of a view that is in the
\* registry when it is called, and the insert leaves one more view in the
\* registry, every view that was there still among them.
C24_CreateViewNeverTakesLiveId ==
    [][Len(ret') > Len(ret) =>
          /\ ret'[Len(ret')] \notin views[TheLoop]
          /\ Cardinality(views'[TheLoop]) = Cardinality(views[TheLoop]) + 1]_vars
\* The places a submission has in the mailbox's list, in the taken batches
\* and in the lists of kept tasks.
Places(i) ==
    {<<"mailbox", k>> : k \in {n \in 1 .. Len(RENDER_MUTEX.funcs) :
                                  RENDER_MUTEX.funcs[n].id = i}}
        \cup UNION {{<<r, "funcs", k>> : k \in {n \in 1 .. Len(funcs[r]) :
                                                  funcs[r][n].id = i}}
                        \cup {<<r, "next_funcs", k>> :
                                 k \in {n \in 1 .. Len(next_funcs[r]) :
                                           next_funcs[r][n].id = i}} :
                    r \in Renderers}

Accepted(i) == status[i] \in {"pending_true", "run_blocked", "run_true"}

\* C25: the loop takes the whole list in one step under the mutex and leaves
\* the mailbox empty for the submissions that follow: a submission is never
\* in two places, an accepted one that has not been executed is in the taken
\* batch or in the mailbox's list (as long as no shutdown is requested, which
\* clears the list), and the execution of a task that returns false is its
\* first and removes it from every list.
C25_TakeLosesAndRepeatsNothing ==
    /\ [](\A i \in CallIds : Cardinality(Places(i)) <= 1)
    /\ [](\A i \in CallIds :
            (Alive /\ ~EXIT_RENDERER /\ Accepted(i) /\ executed[i] = 0)
            => Cardinality(Places(i)) = 1)
    /\ [][\A r \in Renderers :
            (Alive' /\ rpc[r] = "drain" /\ rpc'[r] = "exec")
            => /\ funcs'[r] = RENDER_MUTEX.funcs
               /\ RENDER_MUTEX'.funcs = <<>>]_vars
    /\ [][\A r \in Renderers, i \in CallIds :
            (Alive' /\ rpc[r] = "exec" /\ funcs[r] # <<>> /\ funcs'[r] # funcs[r]
                /\ Head(funcs[r]).id = i
                /\ Head(funcs[r]).kind \notin {"recurring", "recurring_force"})
            => /\ executed[i] = 0
               /\ executed'[i] = 1
               /\ Places(i)' = {}]_vars

\* A drain has executed one submission, and a later one, accepted after the
\* take, waits in the mailbox for the next drain.
C25_Witness ==
    \E r \in Renderers, i, j \in CallIds :
        /\ ~EXIT_RENDERER
        /\ rpc[r] \in {"waiting", "notified", "head"}
        /\ i < j
        /\ executed[i] = 1
        /\ executed[j] = 0
        /\ Accepted(j)
        /\ Places(j) = {<<"mailbox", 1>>}
\* C29: an iteration repaints and sets the deadline to a frame interval from
\* now exactly when the one before it ended by a wait that timed out or by a
\* force redraw; an iteration that follows a wait ended early by a
\* notification runs its tasks without a repaint and with the deadline it had.
C29_RepaintOnlyAfterTimeoutOrForce ==
    /\ [][\A r \in Renderers :
            (rpc'[r] = "head" /\ rpc[r] \in {"waiting", "notified", "exec"})
            => /\ wakeup_by_timeout'[r] = (rpc[r] \in {"waiting", "exec"})
               /\ rpc[r] = "waiting" => next_frame_in[r] = 0
               /\ rpc[r] = "exec" => force_redraw[r]
               /\ next_frame_in'[r] = next_frame_in[r]]_vars
    /\ [][\A r \in Renderers :
            (rpc[r] = "head" /\ rpc'[r] = "drain")
            => /\ painted'[r] = wakeup_by_timeout[r]
               /\ next_frame_in'[r] =
                      IF wakeup_by_timeout[r] THEN FrameMs ELSE next_frame_in[r]]_vars
    /\ [][\A r \in Renderers :
            (rpc[r] \in {"drain", "exec"} /\ rpc'[r] \in {"drain", "exec"})
            => /\ painted'[r] = painted[r]
               /\ next_frame_in'[r] <= next_frame_in[r]]_vars

\* A wait was ended by a notification before its deadline, and the iteration
\* that followed has run the task without a repaint, the deadline still ahead.
C29_Witness ==
    \E r \in Renderers, i \in CallIds :
        /\ rpc[r] = "exec"
        /\ funcs[r] = <<>>
        /\ ~wakeup_by_timeout[r]
        /\ ~painted[r]
        /\ next_frame_in[r] > 0
        /\ executed[i] = 1
        /\ status[i] \in {"run_blocked", "run_true", "run_false"}
\* C30: under the fairness of FairSpec, a task submitted by renderer_pending
\* and accepted by a running loop is eventually executed, unless a shutdown
\* is requested or the loop's thread panics first: the wait of the loop ends
\* at its deadline whether or not anything notifies it.
C30_PendingTaskEventuallyRuns ==
    \A i \in CallIds :
        (status[i] = "pending_true" /\ accepted_in[i] = "Running")
            ~> (executed[i] > 0 \/ EXIT_RENDERER \/ ~Alive)

\* A task of renderer_pending accepted by a running loop has been executed in
\* an iteration that followed a timed-out wait, no shutdown requested.
C30_Witness ==
    \E r \in Renderers, i \in CallIds :
        /\ Alive
        /\ ~EXIT_RENDERER
        /\ status[i] = "pending_true"
        /\ accepted_in[i] = "Running"
        /\ executed[i] = 1
        /\ rpc[r] = "exec"
        /\ wakeup_by_timeout[r]
        /\ forced[r] = NotForced
\* C28: every iteration of the loop that goes on, one that follows a wait
\* ended early by a submission included, executes every command that is in
\* the channel of GPU commands when it begins. Stated for the iteration after
\* an early wake-up (the flag is unset and the deadline is still ahead): it
\* leaves the channel empty.
C28_EveryIterationDrainsChannel ==
    [][(Iteration /\ Alive' /\ ~wakeup_by_timeout[TheLoop]
            /\ next_frame_in[TheLoop] > 0)
        => channel' = <<>>]_vars

\* C31: a CreateRenderBuffer whose texture id is not in the texture map ends
\* in the panic and leaves the render buffer map as it was; one whose texture
\* id is in the map leaves the render buffer map with its id added and
\* nothing else changed.
C31_RenderBufferNeedsTexture ==
    gl_hist.rb.called =>
        IF gl_hist.rb.found
        THEN gl_hist.rb.after = gl_hist.rb.before \cup {gl_hist.rb.id}
        ELSE /\ panicked = "Texture ID not found"
             /\ gl_hist.rb.after = gl_hist.rb.before
             /\ gl_renderer.render_buffers = gl_hist.rb.before

\* Both cases have happened: a render buffer was created on a texture created
\* before it and destroyed, and a second create named a texture that was not
\* in the map and ended in the panic.
C31_Witness ==
    /\ gl_hist.created["render_buffers"] = 1
    /\ gl_hist.destroyed["render_buffers"] = 1
    /\ gl_hist.rb.called
    /\ ~gl_hist.rb.found
    /\ panicked = "Texture ID not found"
    /\ gl_renderer.render_buffers = {}
\* C32: an UpdateTexture or UpdateGeometry for an id that is not in its map
\* changes none of the maps and does not end the execution: the commands
\* that were behind it in the channel are executed after it, and if the
\* process has aborted, a later command did it.
C32_AbsentUpdateIsSkipped ==
    gl_hist.upd.called =>
        /\ ~gl_hist.upd.changed
        /\ IF Alive
           THEN Len(gl_hist.applied) >= gl_hist.upd.at + gl_hist.upd.behind
           ELSE Len(gl_hist.applied) > gl_hist.upd.at

\* An update for an id not in its map was the first command executed, with
\* two commands behind it in the channel, and both were executed, one of them
\* the create of a texture.
C32_Witness ==
    /\ Alive
    /\ gl_hist.upd.called
    /\ gl_hist.upd.at = 1
    /\ gl_hist.upd.behind = 2
    /\ Len(gl_hist.applied) = 3
    /\ gl_renderer.textures # {}
\* A step in which a task touches view v: a view_set_size or an input event
\* for it, or the create_view that returns its id.
Touched(v) ==
    \/ Touch("view_set_size", v)
    \/ Touch("report_input", v)
    \/ CreateView /\ ret'[Len(ret')] = v

\* C33: a paint that finds the timestamp of a view FreshMs old or older drops
\* the entry and does not mark the view; while no task touches the view the
\* entry stays dropped and no paint marks the view; a task that touches the
\* view puts a new timestamp in, and the next paint within FreshMs marks it.
C33_StaleTimestampDroppedUntilTouched ==
    /\ [][Paint => \A v \in views[TheLoop] :
            (views_updated[TheLoop][v] # Absent /\ views_updated[TheLoop][v] >= FreshMs)
            => /\ views_updated'[TheLoop][v] = Absent
               /\ v \notin marked']_vars
    /\ [][\A v \in views[TheLoop] :
            (views_updated[TheLoop][v] = Absent /\ v \in views'[TheLoop] /\ ~Touched(v))
            => /\ views_updated'[TheLoop][v] = Absent
               /\ Paint => v \notin marked']_vars
    /\ [][\A v \in views[TheLoop] :
            (views_updated[TheLoop][v] = Absent /\ Touched(v))
            => views_updated'[TheLoop][v] = 0]_vars
    /\ [][Paint => \A v \in views[TheLoop] :
            views_updated[TheLoop][v] < FreshMs => v \in marked']_vars

\* A paint has dropped the timestamp of a view that had been idle for FreshMs
\* and has left the view unmarked, while another view is still marked.
C33_Witness ==
    \E v, w \in views[TheLoop] :
        /\ views_updated[TheLoop][v] = Absent
        /\ last_touch[v] = FreshMs
        /\ v \notin marked
        /\ w \in marked
\* C34: a view_set_size or an input event for a view of the registry sets the
\* timestamp of that view to now and leaves the registry as it is; for an id
\* that is not in the registry it leaves the registry and the activity map
\* unchanged; create_view leaves the view it returns in the registry with a
\* timestamp of now.
C34_TouchStampsExistingViewOnly ==
    /\ [][\A v \in ViewIds :
            (Touch("view_set_size", v) \/ Touch("report_input", v))
            => /\ views'[TheLoop] = views[TheLoop]
               /\ IF v \in views[TheLoop]
                  THEN views_updated'[TheLoop] =
                          [views_updated[TheLoop] EXCEPT ![v] = 0]
                  ELSE views_updated'[TheLoop] = views_updated[TheLoop]]_vars
    /\ [][CreateView =>
            /\ ret'[Len(ret')] \in views'[TheLoop]
            /\ views_updated'[TheLoop] =
                  [views_updated[TheLoop] EXCEPT ![ret'[Len(ret')]] = 0]]_vars

\* Two views were created and have aged FreshMs; a task has touched the older
\* one, whose timestamp is new again, and a task for an id that is not in the
\* registry would find it absent.
C34_Witness ==
    /\ ret = <<0, 1>>
    /\ views[TheLoop] = {0, 1}
    /\ views_updated[TheLoop][0] = 0
    /\ views_updated[TheLoop][1] = FreshMs
    /\ last_touch[0] = 0
Running(r) == LoopPhase(rpc[r]) = "Running"

\* C35: at most one loop is Running. A thread that gets to one of the three
\* checks of renderer_main while a loop is Running with both handles set, or
\* to the check of the mailbox while it holds a list, panics there; a thread
\* becomes Running only when no other is and the mailbox holds no list; and a
\* list in the mailbox is only ever appended to, taken by its loop, or cleared.
C35_OneLoopRunning ==
    /\ [](Cardinality({r \in Renderers : Running(r)}) <= 1)
    /\ [][\A r \in Renderers :
            (rpc[r] \in {"set_ul", "set_gl", "install"} /\ rpc'[r] # rpc[r]
                /\ UL_RENDERER # NoThread /\ GL_RENDERER # NoThread
                /\ \E q \in Renderers : Running(q))
            => ~Alive']_vars
    /\ [][\A r \in Renderers :
            (rpc[r] = "install" /\ rpc'[r] # rpc[r] /\ RENDER_MUTEX.is_some)
            => ~Alive']_vars
    /\ [][\A r \in Renderers :
            (rpc[r] = "install" /\ rpc'[r] = "head")
            => /\ ~RENDER_MUTEX.is_some
               /\ \A q \in Renderers : ~Running(q)
               /\ RENDER_MUTEX' = Some(<<>>)]_vars
    /\ [][(RENDER_MUTEX.is_some /\ Alive' /\ RENDER_MUTEX' # RENDER_MUTEX)
            => \/ ~RENDER_MUTEX'.is_some
               \/ /\ Len(RENDER_MUTEX'.funcs) = Len(RENDER_MUTEX.funcs) + 1
                  /\ SubSeq(RENDER_MUTEX'.funcs, 1, Len(RENDER_MUTEX.funcs))
                        = RENDER_MUTEX.funcs]_vars

\* Two threads entered renderer_main together and both passed the handle
\* checks; one installed its list, and the other found it and panicked.
C35_Witness ==
    /\ entries = 2
    /\ panicked = "Renderer thread already running, pending tasks exist"
\* C36: whenever a loop is executing tasks both handles are set, and the task
\* it is about to call does not meet its not-initialized panic. In its
\* renderer_main a thread stores both handles before it installs the list,
\* and takes them only after it has cleared the mailbox.
C36_HandlesSetWhileTasksRun ==
    /\ [](\A r \in Renderers :
            rpc[r] = "exec" =>
                /\ UL_RENDERER # NoThread
                /\ GL_RENDERER # NoThread
                /\ funcs[r] # <<>> => ~TaskPanics(Head(funcs[r])))
    /\ [][\A r \in Renderers :
            /\ (rpc'[r] = "head" /\ rpc[r] \notin {"head", "exec", "waiting", "notified"})
                    => rpc[r] = "install"
            /\ (rpc'[r] = "install" /\ rpc[r] # "install")
                    => (rpc[r] = "set_gl" /\ GL_RENDERER' # NoThread)
            /\ (rpc'[r] = "set_gl" /\ rpc[r] # "set_gl")
                    => (rpc[r] = "set_ul" /\ UL_RENDERER' # NoThread)
            /\ (rpc'[r] = "take_ul" /\ rpc[r] # "take_ul")
                    => (rpc[r] = "clear" /\ ~RENDER_MUTEX'.is_some)]_vars
    /\ [][(Alive' /\ UL_RENDERER # NoThread /\ UL_RENDERER' = NoThread)
            => \E q \in Renderers : rpc[q] = "take_ul" /\ rpc'[q] = "take_gl"]_vars
    /\ [][(Alive' /\ GL_RENDERER # NoThread /\ GL_RENDERER' = NoThread)
            => \E q \in Renderers : rpc[q] = "take_gl" /\ rpc'[q] = "idle"]_vars

\* A loop has executed a create_view, both handles set, and is executing the
\* tasks of a later batch.
C36_Witness ==
    \E r \in Renderers :
        /\ rpc[r] = "exec"
        /\ funcs[r] # <<>>
        /\ views[r] # {}
        /\ UL_RENDERER # NoThread
        /\ GL_RENDERER # NoThread
\* C37: the loop never meets its mailbox-corrupted panics: the mailbox holds
\* a list whenever the loop is about to take it, holds none while the loop
\* has the taken batch and is about to put the next list back, and holds a
\* list when the loop is about to clear it at shutdown.
C37_MailboxNeverCorrupted ==
    /\ panicked \notin {"Renderer mutex corrupted", "Renderer mutex corrupted at exit"}
    /\ \A r \in Renderers :
        /\ rpc[r] \in {"head", "drain", "waiting", "notified", "clear"}
                => RENDER_MUTEX.is_some
        /\ rpc[r] = "exec" => (~RENDER_MUTEX.is_some /\ lock = r)

\* An exit was requested after the loop had taken, run and put back a list of
\* tasks, and the loop is about to clear the mailbox, which holds a list.
C37_Witness ==
    \E r \in Renderers, i \in CallIds :
        /\ rpc[r] = "clear"
        /\ RENDER_MUTEX.is_some
        /\ executed[i] >= 1
        /\ EXIT_RENDERER
\* C38: every id that has a timestamp in the activity map is the id of a view
\* in the registry.
C38_TimestampsOnlyForLiveViews ==
    \A v \in ViewIds :
        views_updated[TheLoop][v] # Absent => v \in views[TheLoop]
\* C39: first executions keep the order of acceptance: whenever an accepted
\* submission has been executed, every submission accepted before it has been
\* executed too, and no step gives a submission its first execution while an
\* earlier accepted one still waits for its own.
C39_FirstExecutionsInAcceptanceOrder ==
    /\ [](\A i, j \in CallIds :
            (i < j /\ Accepted(i) /\ Accepted(j) /\ executed[j] >= 1)
            => executed[i] >= 1)
    /\ [][\A i, j \in CallIds :
            (i < j /\ Accepted(i) /\ Accepted(j) /\ executed[j] = 0 /\ executed'[j] = 1)
            => executed[i] >= 1]_vars

\* A recurring task was executed and carried over, a second submission was
\* accepted after the drain that first ran it, and the next drain ran the
\* recurring task again and then the second submission for the first time.
C39_Witness ==
    \E i, j \in CallIds :
        /\ i < j
        /\ Accepted(i)
        /\ Accepted(j)
        /\ executed[i] = 2
        /\ executed[j] = 1
\* C40: a create_view called while the mailbox holds no list returns NoId,
\* which is 0, leaves the registry and the activity map as they are and parks
\* no thread; the first create_view of a running loop, on an empty registry,
\* returns 0 as well.
C40_CreateViewReturnsZeroWhenStopped ==
    /\ [][(Len(ret') > Len(ret) /\ ~RENDER_MUTEX.is_some)
            => /\ ret'[Len(ret')] = 0
               /\ views' = views
               /\ views_updated' = views_updated
               /\ cpc' = cpc
               /\ \A c \in Clients : cpc[c] = "idle"]_vars
    /\ [][(Len(ret') > Len(ret) /\ RENDER_MUTEX.is_some /\ views[TheLoop] = {})
            => /\ ret'[Len(ret')] = 0
               /\ views'[TheLoop] = {0}]_vars

\* View 0 was created and aged, view 1 was created, the loop stopped, and a
\* third create_view returned 0: had the loop run it, it would have found the
\* registry empty and reset the age of id 0.
C40_Witness ==
    /\ ~RENDER_MUTEX.is_some
    /\ rpc[TheLoop] = "idle"
    /\ ret = <<0, 1, 0>>
    /\ last_touch[0] = FreshMs
    /\ last_touch[1] = 0
====
